---- MODULE Spec2Model ----
(***************************************************************************)
(* The scheduling engine of backend/app/services/jssp_solver.py.           *)
(*                                                                         *)
(* solve_jssp(jobs, machine_groups) builds a CP-SAT model (optional        *)
(* interval per operation and machine instance, exactly-one presence,      *)
(* precedence over min/max aggregates, no-overlap per instance, a          *)
(* weighted objective), calls the solver and decodes the answer into a     *)
(* Schedule.  The three phases are the actions BuildModel, Solve and       *)
(* ProcessResults; the solver is the set of assignments that satisfy the   *)
(* constraints the code posts and minimise the objective it states.        *)
(***************************************************************************)
EXTENDS Integers, Sequences, FiniteSets, TLC

(***************************************************************************)
(* Bounds of the explored inputs.                                          *)
(***************************************************************************)
MaxHorizon == 5
    \* processing times are positive and sum to at most MaxHorizon
MaxQty == 2
    \* MachineGroup.quantity ranges over 0..MaxQty
MaxPriority == 3
    \* Job.priority is 1 or MaxPriority
MaxUnits == 4
    \* at most MaxUnits optional intervals in one CP model

GroupIds == <<"A", "B">>
JobIds == <<"J1", "J2">>
OpIds == << <<"J1-OP1", "J1-OP2">>, <<"J2-OP1">> >>
Priorities == {1, MaxPriority}

\* Python's None
None == [none |-> TRUE]

VARIABLES
    jobs,            \* argument jobs: sequence of Job rows with operation_list
    machine_groups,  \* argument machine_groups: sequence of MachineGroup rows
    pc,              \* position inside solve_jssp
    model,           \* the CpModel that was built (None before)
    status,          \* solver.Solve(model)
    values,          \* solver.Value(.) of the variables of the model
    result,          \* the return value: a Schedule record or None
    scores,          \* history: the objective terms of the assignments the
                     \* solver chose among (None before it ran)
    prev,            \* the return value of the previous call (None at first)
    caller,          \* the tool that calls solve_jssp (None: called directly)
    reply,           \* what the tool returned (None before it returns)
    schedules,       \* the Schedule rows saved for the scenario
    other,           \* a second invocation of solve_jssp that runs at the
                     \* same time (None: there is none)
    edited,          \* history: the ids of the jobs that _tool_add_job,
                     \* _tool_adjust_job or _tool_swap_operations wrote
    saved,           \* the Schedule rows of all scenarios (with their
                     \* ScheduledOperation rows)
    calls,           \* the calls of the solve tools that requests make
    next_id,         \* the identity column of the Schedule table
    completed,       \* history: the calls that returned, in that order
    scenarios,       \* the Scenario rows
    user_sessions,   \* session token -> AppContext
    issued,          \* the number of session tokens issued so far
    next_scenario_id,\* the identity column of the Scenario table
    revoked,         \* history: the tokens whose session a logout removed
    response,        \* the response to the latest request (None at first)
    interpret        \* a request to /interpret: its position in the loop of
                     \* the orchestrator (None: there is none)

\* the sessions and the scenarios they select
sessionVars == <<scenarios, user_sessions, issued, next_scenario_id, revoked, response>>

\* the application state around the solver
appVars == <<saved, calls, next_id, completed, sessionVars, interpret>>

\* what solve_jssp and the two solve tools do not touch
restVars == <<other, edited, appVars>>

vars == <<jobs, machine_groups, pc, model, status, values, result, scores, prev,
          caller, reply, schedules, restVars>>

(***************************************************************************)
(* Arithmetic helpers.                                                     *)
(***************************************************************************)
MaxOf(S) == CHOOSE x \in S : \A y \in S : y <= x
MinOf(S) == CHOOSE x \in S : \A y \in S : x <= y

RECURSIVE SumSeq(_)
SumSeq(s) == IF s = <<>> THEN 0 ELSE Head(s) + SumSeq(Tail(s))

RECURSIVE Flatten(_)
Flatten(ss) == IF ss = <<>> THEN <<>> ELSE Head(ss) \o Flatten(Tail(ss))

Range(s) == {s[i] : i \in DOMAIN s}

(***************************************************************************)
(* The records of models/jssp_model.py, as far as solve_jssp reads them.   *)
(***************************************************************************)
Operation(id, mg, pt, preds) ==
    [id |-> id, machine_group_id |-> mg, processing_time |-> pt, predecessors |-> preds]

Job(id, priority, ops) ==
    [id |-> id, priority |-> priority, operation_list |-> ops]

MachineGroup(id, quantity) == [id |-> id, quantity |-> quantity]

ScheduledOperation(job_id, operation_id, machine_instance_id, start_time, end_time) ==
    [job_id |-> job_id, operation_id |-> operation_id,
     machine_instance_id |-> machine_instance_id,
     start_time |-> start_time, end_time |-> end_time]

Schedule(makespan, scheduled_operations, machine_utilization, average_flow_time) ==
    [makespan |-> makespan, scheduled_operations |-> scheduled_operations,
     machine_utilization |-> machine_utilization,
     average_flow_time |-> average_flow_time]

(***************************************************************************)
(* The inputs a call is explored on.  Ids are unique (they are primary     *)
(* keys), processing times and priorities are positive, predecessors name  *)
(* operations of the same job and are acyclic; the order of a job's        *)
(* operation_list is independent of its predecessor relation.  Group ids   *)
(* are interchangeable, so the first operation of the input is taken to be *)
(* on the first group.                                                     *)
(***************************************************************************)
AllOperations(js) == Flatten([j \in DOMAIN js |-> js[j].operation_list])

\* line 14
horizon(js) ==
    LET ops == AllOperations(js)
    IN  SumSeq([k \in DOMAIN ops |-> ops[k].processing_time])

FirstGroupFirst(js) ==
    AllOperations(js) # <<>> => AllOperations(js)[1].machine_group_id = GroupIds[1]

Acyclic(p, n) ==
    \E r \in [1..n -> 1..n] :
        /\ \A a, b \in 1..n : a # b => r[a] # r[b]
        /\ \A k \in 1..n : \A q \in p[k] : r[q] < r[k]

PredChoices(n) == {p \in [1..n -> SUBSET (1..n)] : Acyclic(p, n)}

TimeLists(n, budget) == {t \in [1..n -> 1..budget] : SumSeq(t) <= budget}

\* the operation lists of job j with at most `budget` time units in all
OperationLists(j, budget) ==
    UNION { { [k \in 1..n |->
                 Operation(OpIds[j][k], g[k], t[k], {OpIds[j][q] : q \in p[k]})] :
              g \in [1..n -> Range(GroupIds)],
              t \in TimeLists(n, budget),
              p \in PredChoices(n) } :
            n \in 0..Len(OpIds[j]) }

JobRows(j, budget) ==
    {Job(JobIds[j], pr, ol) : pr \in Priorities, ol \in OperationLists(j, budget)}

RECURSIVE JobListsOfLen(_)
JobListsOfLen(n) ==
    IF n = 0 THEN {<<>>}
    ELSE UNION { {Append(js, row) : row \in JobRows(n, MaxHorizon - horizon(js))} :
                 js \in JobListsOfLen(n - 1) }

JobLists == {js \in UNION {JobListsOfLen(n) : n \in 0..Len(JobIds)} : FirstGroupFirst(js)}

GroupIdLists ==
    {s \in UNION {[1..n -> Range(GroupIds)] : n \in 0..Len(GroupIds)} :
        \A a, b \in DOMAIN s : a < b =>
            \E x, y \in DOMAIN GroupIds : x < y /\ GroupIds[x] = s[a] /\ GroupIds[y] = s[b]}

MachineGroupLists ==
    UNION { { [k \in DOMAIN s |-> MachineGroup(s[k], q[k])] :
              q \in [DOMAIN s -> 0..MaxQty] } :
            s \in GroupIdLists }


QuantityOf(mgs, id) ==
    IF \E k \in DOMAIN mgs : mgs[k].id = id
    THEN (CHOOSE g \in Range(mgs) : g.id = id).quantity
    ELSE 0

NumUnits(js, mgs) ==
    LET ops == AllOperations(js)
    IN  SumSeq([k \in DOMAIN ops |-> QuantityOf(mgs, ops[k].machine_group_id)])

(***************************************************************************)
(* solve_jssp, lines 6-124: the CpModel.                                   *)
(***************************************************************************)
InstanceId(group_id, i) == group_id \o "_" \o ToString(i)

\* variant: a lookup of a missing id yields a default group (a defaultdict)
machine_group_map_with_default(mgs) ==
    [id \in Range(GroupIds) |->
        IF \E k \in DOMAIN mgs : mgs[k].id = id
        THEN mgs[MaxOf({k \in DOMAIN mgs : mgs[k].id = id})]
        ELSE MachineGroup(id, 1)]

machine_group_map(mgs) ==
    [id \in {mgs[k].id : k \in DOMAIN mgs} |->
        mgs[MaxOf({k \in DOMAIN mgs : mgs[k].id = id})]]

all_machine_instances(mgs) ==
    Flatten([k \in DOMAIN mgs |->
                [i \in 1..mgs[k].quantity |-> InstanceId(mgs[k].id, i - 1)]])

UnknownGroup(js, mgs) ==
    \E j \in DOMAIN js : \E k \in DOMAIN js[j].operation_list :
        js[j].operation_list[k].machine_group_id \notin DOMAIN machine_group_map(mgs)

\* variant: a group without instances is given one (range(max(1, quantity)))
TaskOf_at_least_one_unit(job, op, mgs) ==
    LET group == machine_group_map(mgs)[op.machine_group_id]
    IN  [key |-> <<job.id, op.id>>,
         size |-> op.processing_time,
         units |-> [i \in 1..MaxOf({1, group.quantity}) |-> InstanceId(group.id, i - 1)]]

\* lines 24-43: one task per operation, one optional interval ("unit") per
\* instance of its group; AddExactlyOne over the presence literals.
TaskOf(job, op, mgs) ==
    LET group == machine_group_map(mgs)[op.machine_group_id]
    IN  [key |-> <<job.id, op.id>>,
         size |-> op.processing_time,
         units |-> [i \in 1..group.quantity |-> InstanceId(group.id, i - 1)]]

task_to_op_map(js, mgs) ==
    Flatten([j \in DOMAIN js |->
                [k \in DOMAIN js[j].operation_list |->
                    TaskOf(js[j], js[j].operation_list[k], mgs)]])

\* lines 47-62: one constraint per (operation, predecessor) with the
\* predecessor in the same job.
PrecedenceOf(job) ==
    LET op_map == {job.operation_list[k].id : k \in DOMAIN job.operation_list}
    IN  { [pred |-> <<job.id, pred_op_id>>, cur |-> <<job.id, op.id>>] :
            <<op, pred_op_id>> \in
              { x \in Range(job.operation_list) \X op_map : x[2] \in x[1].predecessors } }

precedence(js) == UNION {PrecedenceOf(js[j]) : j \in DOMAIN js}

\* variant: the intervals are collected per group id, so no instance has any
no_overlap_by_group(mgs) == {mgs[k].id : k \in DOMAIN mgs}

\* lines 66-67
no_overlap(mgs) == Range(all_machine_instances(mgs))

\* variant: the primary sum is not weighted
PRIMARY_WEIGHT_one(js) == 1

\* lines 82-85
PRIMARY_WEIGHT(js) == horizon(js) + 1
SECONDARY_WEIGHT == 1
max_priority(js) ==
    IF js # <<>> THEN SumSeq([j \in DOMAIN js |-> js[j].priority]) ELSE 1

\* lines 87-106: the jobs that have operations contribute the end of the
\* last operation of their operation_list, times their priority.
LastOp(job) == job.operation_list[Len(job.operation_list)]

job_end_times(js) ==
    LET with_ops == SelectSeq(js, LAMBDA job : job.operation_list # <<>>)
    IN  [j \in DOMAIN with_ops |->
            [job_id |-> with_ops[j].id,
             last |-> <<with_ops[j].id, LastOp(with_ops[j]).id>>,
             priority |-> with_ops[j].priority,
             weighted_ub |-> horizon(js) * MaxOf({1, with_ops[j].priority})]]

\* variant: the time variables are bounded by the longest operation
CpModel_horizon_longest_operation(js, mgs) ==
    [horizon |-> MaxOf({0} \cup {AllOperations(js)[k].processing_time :
                                     k \in DOMAIN AllOperations(js)}),
     tasks |-> task_to_op_map(js, mgs),
     precedence |-> precedence(js),
     no_overlap |-> no_overlap(mgs),
     job_ends |-> job_end_times(js),
     total_ub |-> horizon(js) * horizon(js) * MaxOf({1, max_priority(js)}),
     objective_ub |-> (horizon(js) * horizon(js) * horizon(js) * MaxOf({1, max_priority(js)}))
                        + horizon(js),
     PRIMARY_WEIGHT |-> PRIMARY_WEIGHT(js),
     SECONDARY_WEIGHT |-> SECONDARY_WEIGHT]

CpModel(js, mgs) ==
    [horizon |-> horizon(js),
     tasks |-> task_to_op_map(js, mgs),
     precedence |-> precedence(js),
     no_overlap |-> no_overlap(mgs),
     job_ends |-> job_end_times(js),
     total_ub |-> horizon(js) * horizon(js) * MaxOf({1, max_priority(js)}),
     objective_ub |-> (horizon(js) * horizon(js) * horizon(js) * MaxOf({1, max_priority(js)}))
                        + horizon(js),
     PRIMARY_WEIGHT |-> PRIMARY_WEIGHT(js),
     SECONDARY_WEIGHT |-> SECONDARY_WEIGHT]

(***************************************************************************)
(* solver.Solve(model), line 128.  CpSolver runs with default parameters   *)
(* (no time limit), so it ends OPTIMAL with an assignment that minimises   *)
(* the objective, or INFEASIBLE.  Which optimal assignment it returns is   *)
(* not determined.                                                         *)
(*                                                                         *)
(* An assignment gives every task the unit whose presence literal is true  *)
(* (AddExactlyOne), the start and end of that unit (end = start + size is  *)
(* enforced on present intervals only), and the values of the aggregates   *)
(* the code constrains: min_start = min of the StartExpr of all units of   *)
(* the task (lines 59-60) and max_end = max of their EndExpr (lines 56-57, *)
(* 94-95).  The start and end variables of a unit that is not present are  *)
(* bound only by their domain 0..horizon, so with more than one unit       *)
(* min_start is any value in 0..start and max_end any value in             *)
(* end..horizon; with one unit they are the start and the end.             *)
(***************************************************************************)
HasStartAggregate(m, t) == \E c \in m.precedence : c.cur = t.key

HasEndAggregate(m, t) ==
    \/ \E c \in m.precedence : c.pred = t.key
    \/ \E j \in DOMAIN m.job_ends : m.job_ends[j].last = t.key

TaskChoices(m, t) ==
    LET pooled == Len(t.units) > 1
    IN  { c \in { [unit |-> i, start |-> s, end |-> s + t.size,
                   min_start |-> lo, max_end |-> hi] :
                     i \in DOMAIN t.units, s \in 0..(m.horizon - t.size),
                     lo \in 0..m.horizon, hi \in 0..m.horizon } :
            /\ IF pooled /\ HasStartAggregate(m, t)
               THEN c.min_start <= c.start ELSE c.min_start = c.start
            /\ IF pooled /\ HasEndAggregate(m, t)
               THEN c.max_end >= c.end ELSE c.max_end = c.end }

\* variant: one no-overlap constraint per group instead of per instance
NoOverlapOk_per_group(m, t1, c1, t2, c2) ==
    (t1.units = t2.units) => (c1.end <= c2.start \/ c2.end <= c1.start)

\* AddNoOverlap (lines 66-67) on the intervals present on one instance
NoOverlapOk(m, t1, c1, t2, c2) ==
    (t1.units[c1.unit] = t2.units[c2.unit] /\ t1.units[c1.unit] \in m.no_overlap)
        => (c1.end <= c2.start \/ c2.end <= c1.start)

\* variant: the predecessor's StartExpr is aggregated instead of its EndExpr
PrecedenceOk_pred_start(m, t1, c1, t2, c2) ==
    /\ [pred |-> t1.key, cur |-> t2.key] \in m.precedence => c2.min_start >= c1.start
    /\ [pred |-> t2.key, cur |-> t1.key] \in m.precedence => c1.min_start >= c2.start

\* current_start_time >= pred_end_time (line 62)
PrecedenceOk(m, t1, c1, t2, c2) ==
    /\ [pred |-> t1.key, cur |-> t2.key] \in m.precedence => c2.min_start >= c1.max_end
    /\ [pred |-> t2.key, cur |-> t1.key] \in m.precedence => c1.min_start >= c2.max_end

\* the choice for task k of a agrees with the choices for the tasks before it
Compatible(m, a, k) ==
    /\ [pred |-> m.tasks[k].key, cur |-> m.tasks[k].key] \in m.precedence
          => a[k].min_start >= a[k].max_end
    /\ \A i \in 1..(k - 1) :
          /\ NoOverlapOk(m, m.tasks[i], a[i], m.tasks[k], a[k])
          /\ PrecedenceOk(m, m.tasks[i], a[i], m.tasks[k], a[k])

\* the search: the assignments of the first k tasks that satisfy the
\* constraints among them, choices[k] being TaskChoices of task k
RECURSIVE Extend(_, _, _)
Extend(m, choices, k) ==
    IF k = 0 THEN {<<>>}
    ELSE { a \in { Append(done, c) : done \in Extend(m, choices, k - 1), c \in choices[k] } :
             Compatible(m, a, k) }

\* the assignments that satisfy exactly-one, interval, precedence and
\* no-overlap constraints
Assignments(m) ==
    IF \E k \in DOMAIN m.tasks : m.tasks[k].units = <<>> THEN {}
    ELSE Extend(m, [k \in DOMAIN m.tasks |-> TaskChoices(m, m.tasks[k])], Len(m.tasks))

TaskIndex(m, key) == CHOOSE k \in DOMAIN m.tasks : m.tasks[k].key = key

\* job_end_time (lines 94-95)
job_end_time(m, a, j) == a[TaskIndex(m, m.job_ends[j].last)].max_end

\* makespan (lines 109-112)
makespan(m, a) ==
    IF m.job_ends = <<>> THEN 0
    ELSE MaxOf({job_end_time(m, a, j) : j \in DOMAIN m.job_ends})

\* variant: the job's end is not multiplied by its priority
weighted_term_unweighted(m, a, j) == job_end_time(m, a, j)

\* weighted_term (lines 104-105)
weighted_term(m, a, j) == job_end_time(m, a, j) * m.job_ends[j].priority

\* total_weighted_completion (lines 115-116)
total_weighted_completion(weighted_terms) == SumSeq(weighted_terms)

\* combined_objective_var (lines 120-121)
combined_objective(m, total, span) ==
    (m.PRIMARY_WEIGHT * total) + (m.SECONDARY_WEIGHT * span)

\* solver.Value(.) of every variable of the model under the assignment a
Valuation(m, a) ==
    LET terms == [j \in DOMAIN m.job_ends |-> weighted_term(m, a, j)]
        total == total_weighted_completion(terms)
        span == makespan(m, a)
    IN  [tasks |-> a,
         weighted_terms |-> terms,
         makespan |-> span,
         total_weighted_completion |-> total,
         combined_objective |-> combined_objective(m, total, span)]

\* the domains the auxiliary variables are declared with
InDomains(m, v) ==
    /\ \A j \in DOMAIN m.job_ends :
          v.weighted_terms[j] \in 0..m.job_ends[j].weighted_ub
    /\ v.makespan \in 0..m.horizon
    /\ v.total_weighted_completion \in 0..m.total_ub
    /\ v.combined_objective \in 0..m.objective_ub

Feasible(m) == {v \in {Valuation(m, a) : a \in Assignments(m)} : InDomains(m, v)}

\* variant: no objective is set, any feasible assignment is returned
OptimalAmong_no_minimize(m, feasible) == feasible

\* variant: total_weighted_completion alone is minimised
OptimalAmong_primary_only(m, feasible) ==
    LET best == MinOf({v.total_weighted_completion : v \in feasible})
    IN  {v \in feasible : v.total_weighted_completion = best}

\* model.Minimize(combined_objective_var), line 124
OptimalAmong(m, feasible) ==
    LET best == MinOf({v.combined_objective : v \in feasible})
    IN  {v \in feasible : v.combined_objective = best}

\* the (total_weighted_completion, makespan) pairs of a set of valuations
Scores(feasible) == {<<v.total_weighted_completion, v.makespan>> : v \in feasible}

(***************************************************************************)
(* lines 133-162: decoding.                                                *)
(***************************************************************************)
Fraction(num, den) == [num |-> num, den |-> den]

\* variant: the interval's StartExpr is read for end_time too
DecodeOp_end_from_start(job, op, t, c) ==
    ScheduledOperation(job.id, op.id,
                       InstanceId(op.machine_group_id, c.unit - 1),
                       c.start, c.start)

\* lines 138-154: the first unit whose presence literal is true
DecodeOp(job, op, t, c) ==
    ScheduledOperation(job.id, op.id,
                       InstanceId(op.machine_group_id, c.unit - 1),
                       c.start, c.end)

\* variant: the break leaves the loop over the job's operations
scheduled_ops_first_of_job(js, m, a) ==
    Flatten([j \in DOMAIN js |->
        [k \in 1..MinOf({1, Len(js[j].operation_list)}) |->
            LET op == js[j].operation_list[k]
                i == TaskIndex(m, <<js[j].id, op.id>>)
            IN  DecodeOp(js[j], op, m.tasks[i], a[i])]])

scheduled_ops(js, m, a) ==
    Flatten([j \in DOMAIN js |->
        [k \in DOMAIN js[j].operation_list |->
            LET op == js[j].operation_list[k]
                i == TaskIndex(m, <<js[j].id, op.id>>)
            IN  DecodeOp(js[j], op, m.tasks[i], a[i])]])

\* variant: the end time is added instead of the duration
machine_busy_time_end(sops) ==
    [inst \in {sops[k].machine_instance_id : k \in DOMAIN sops} |->
        SumSeq([k \in DOMAIN sops |->
                   IF sops[k].machine_instance_id = inst
                   THEN sops[k].end_time ELSE 0])]

machine_busy_time(sops) ==
    [inst \in {sops[k].machine_instance_id : k \in DOMAIN sops} |->
        SumSeq([k \in DOMAIN sops |->
                   IF sops[k].machine_instance_id = inst
                   THEN sops[k].end_time - sops[k].start_time ELSE 0])]

\* variant: the entry of a job is not updated by its later operations
job_flow_times_first_row(sops) ==
    [job_id \in {sops[k].job_id : k \in DOMAIN sops} |->
        LET first == MinOf({k \in DOMAIN sops : sops[k].job_id = job_id})
        IN  <<sops[first].start_time, sops[first].end_time>>]

job_flow_times(sops) ==
    [job_id \in {sops[k].job_id : k \in DOMAIN sops} |->
        <<MinOf({sops[k].start_time : k \in {x \in DOMAIN sops : sops[x].job_id = job_id}}),
          MaxOf({sops[k].end_time : k \in {x \in DOMAIN sops : sops[x].job_id = job_id}})>>]

machine_utilization(sops, final_makespan) ==
    LET busy == machine_busy_time(sops)
    IN  [inst \in DOMAIN busy |->
            IF final_makespan > 0 THEN Fraction(busy[inst], final_makespan)
            ELSE Fraction(0, 1)]

RECURSIVE SumOver(_, _)
SumOver(f, S) ==
    IF S = {} THEN 0
    ELSE LET x == CHOOSE y \in S : TRUE IN f[x] + SumOver(f, S \ {x})

total_flow_time(sops) ==
    LET flow == job_flow_times(sops)
    IN  SumOver([job_id \in DOMAIN flow |-> flow[job_id][2] - flow[job_id][1]], DOMAIN flow)

average_flow_time(js, sops) ==
    IF js # <<>> THEN Fraction(total_flow_time(sops), Len(js)) ELSE Fraction(0, 1)

Decode(js, m, vals) ==
    LET sops == scheduled_ops(js, m, vals.tasks)
    IN  Schedule(vals.makespan, sops,
                 machine_utilization(sops, vals.makespan),
                 average_flow_time(js, sops))

(***************************************************************************)
(* The state machine.                                                      *)
(***************************************************************************)
\* no scenario, nobody logged in
NoSessions ==
    /\ scenarios = {}
    /\ user_sessions = <<>>
    /\ issued = 0
    /\ next_scenario_id = 1
    /\ revoked = {}
    /\ response = None

AppInit ==
    /\ saved = {}
    /\ calls = <<>>
    /\ next_id = 1
    /\ completed = <<>>
    /\ NoSessions
    /\ interpret = None

RestInit ==
    /\ other = None
    /\ edited = {}
    /\ AppInit

Init ==
    /\ jobs \in JobLists
    /\ machine_groups \in MachineGroupLists
    /\ NumUnits(jobs, machine_groups) <= MaxUnits
    /\ pc = "build"
    /\ model = None
    /\ status = None
    /\ values = None
    /\ result = None
    /\ scores = None
    /\ prev = None
    /\ caller = None
    /\ reply = None
    /\ schedules = <<>>
    /\ RestInit

\* variant: the operation_list of every job given is reversed in place
BuildModel_reverses_operation_lists ==
    /\ pc = "build"
    /\ IF all_machine_instances(machine_groups) = <<>>
          \/ UnknownGroup(jobs, machine_groups)
       THEN /\ pc' = "done"
            /\ result' = None
            /\ model' = model
       ELSE /\ pc' = "solve"
            /\ model' = CpModel(jobs, machine_groups)
            /\ result' = result
    /\ jobs' = [j \in DOMAIN jobs |->
                  [jobs[j] EXCEPT !.operation_list =
                      [k \in DOMAIN @ |-> @[Len(@) + 1 - k]]]]
    /\ UNCHANGED <<machine_groups, status, values, scores, prev, caller, reply, schedules>>
    /\ UNCHANGED restVars

\* lines 6-124, with the two early returns (lines 10-11 and 26-27)
BuildModel ==
    /\ pc = "build"
    /\ IF all_machine_instances(machine_groups) = <<>>
          \/ UnknownGroup(jobs, machine_groups)
       THEN /\ pc' = "done"
            /\ result' = None
            /\ model' = model
       ELSE /\ pc' = "solve"
            /\ model' = CpModel(jobs, machine_groups)
            /\ result' = result
    /\ UNCHANGED <<jobs, machine_groups, status, values, scores, prev, caller, reply, schedules>>
    /\ UNCHANGED restVars

\* lines 127-128
Solve ==
    /\ pc = "solve"
    /\ \E feasible \in {Feasible(model)} :
          /\ scores' = Scores(feasible)
          /\ IF feasible = {}
             THEN /\ status' = "INFEASIBLE"
                  /\ values' = None
             ELSE /\ status' = "OPTIMAL"
                  /\ \E v \in OptimalAmong(model, feasible) : values' = v
    /\ pc' = "process"
    /\ UNCHANGED <<jobs, machine_groups, model, result, prev, caller, reply, schedules>>
    /\ UNCHANGED restVars

\* variant: the status is not tested and no operation has a unit to read
ProcessResults_without_status_test ==
    /\ pc = "process"
    /\ IF status \in {"OPTIMAL", "FEASIBLE"}
       THEN result' = Decode(jobs, model, values)
       ELSE result' = Schedule(0, <<>>, <<>>, Fraction(0, 1))
    /\ pc' = "done"
    /\ UNCHANGED <<jobs, machine_groups, model, status, values, scores, prev, caller, reply, schedules>>
    /\ UNCHANGED restVars

\* lines 133-164
ProcessResults ==
    /\ pc = "process"
    /\ IF status \in {"OPTIMAL", "FEASIBLE"}
       THEN result' = Decode(jobs, model, values)
       ELSE result' = None
    /\ pc' = "done"
    /\ UNCHANGED <<jobs, machine_groups, model, status, values, scores, prev, caller, reply, schedules>>
    /\ UNCHANGED restVars

Next == BuildModel \/ Solve \/ ProcessResults

Spec == Init /\ [][Next]_vars

(***************************************************************************)
(* A second call of solve_jssp on the same input with the processing_time  *)
(* of one operation increased by one; prev keeps the makespan and the      *)
(* priority-weighted completion sum of what the first call returned.       *)
(***************************************************************************)
EntryIn(r, job_id, operation_id) ==
    r.scheduled_operations[
        CHOOSE k \in DOMAIN r.scheduled_operations :
            /\ r.scheduled_operations[k].job_id = job_id
            /\ r.scheduled_operations[k].operation_id = operation_id]

\* sum over the jobs of priority * end_time of the job's last operation
WeightedCompletion(js, r) ==
    SumSeq([j \in DOMAIN js |->
               IF js[j].operation_list = <<>> THEN 0
               ELSE js[j].priority * EntryIn(r, js[j].id, LastOp(js[j]).id).end_time])

Summary(js, r) ==
    IF r = None THEN None
    ELSE [makespan |-> r.makespan, weighted |-> WeightedCompletion(js, r)]

CallAgainWithLongerOperation ==
    /\ pc = "done"
    /\ caller = None
    /\ horizon(jobs) < MaxHorizon
    /\ \E j \in DOMAIN jobs : \E k \in DOMAIN jobs[j].operation_list :
          jobs' = [jobs EXCEPT ![j].operation_list[k].processing_time = @ + 1]
    /\ prev' = Summary(jobs, result)
    /\ pc' = "build"
    /\ model' = None
    /\ status' = None
    /\ values' = None
    /\ result' = None
    /\ scores' = None
    /\ UNCHANGED <<machine_groups, caller, reply, schedules>>
    /\ UNCHANGED restVars

NextIncrease == Next \/ CallAgainWithLongerOperation

SpecIncrease == Init /\ [][NextIncrease]_vars

(***************************************************************************)
(* A second call of solve_jssp on the same input; prev keeps what the      *)
(* first call returned (its makespan and priority-weighted completion sum, *)
(* or None).                                                               *)
(***************************************************************************)
Outcome(js, r) == [schedule |-> Summary(js, r)]

CallAgainOnSameInput ==
    /\ pc = "done"
    /\ caller = None
    /\ prev = None
    /\ prev' = Outcome(jobs, result)
    /\ pc' = "build"
    /\ model' = None
    /\ status' = None
    /\ values' = None
    /\ result' = None
    /\ scores' = None
    /\ UNCHANGED <<jobs, machine_groups, caller, reply, schedules>>
    /\ UNCHANGED restVars

NextRepeat == Next \/ CallAgainOnSameInput

SpecRepeat == Init /\ [][NextRepeat]_vars

(***************************************************************************)
(* solve_jssp called on jobs as they are stored: processing_time is an     *)
(* int column (jssp_model.py line 111) and solve_jssp reads it as it is    *)
(* (lines 14 and 37), so an operation can reach it with processing_time 0. *)
(***************************************************************************)
InitUnvalidated ==
    /\ \E js \in JobLists :
          \E j \in DOMAIN js : \E k \in DOMAIN js[j].operation_list :
              jobs = [js EXCEPT ![j].operation_list[k].processing_time = 0]
    /\ machine_groups \in MachineGroupLists
    /\ NumUnits(jobs, machine_groups) <= MaxUnits
    /\ pc = "build"
    /\ model = None
    /\ status = None
    /\ values = None
    /\ result = None
    /\ scores = None
    /\ prev = None
    /\ caller = None
    /\ reply = None
    /\ schedules = <<>>
    /\ RestInit

SpecUnvalidated == InitUnvalidated /\ [][Next]_vars

(***************************************************************************)
(* The two tools that call solve_jssp on the jobs and machine groups of    *)
(* the active scenario (scheduling.py): _tool_solve_schedule saves the     *)
(* schedule, _tool_simulate_solve does not.                                *)
(***************************************************************************)
Tools == {"_tool_solve_schedule", "_tool_simulate_solve"}

RECURSIVE Pow10(_)
Pow10(n) == IF n = 0 THEN 1 ELSE 10 * Pow10(n - 1)

\* round(x, ndigits): the nearest multiple of 10^-ndigits, ties to even
Round(x, ndigits) ==
    LET scale == Pow10(ndigits)
        q == (x.num * scale) \div x.den
        r == (x.num * scale) % x.den
        up == (2 * r > x.den) \/ (2 * r = x.den /\ q % 2 = 1)
    IN  Fraction(IF up THEN q + 1 ELSE q, scale)

\* a Schedule row with its ScheduledOperation rows
SavedSchedule(id, sched) == [id |-> id, schedule |-> sched]

\* the identity column: ids are not reused
NextScheduleId(rows) == MaxOf({0} \cup {rows[k].id : k \in DOMAIN rows}) + 1

\* a row saved by an earlier solve of the scenario
EarlierSchedule == SavedSchedule(1, Schedule(0, <<>>, <<>>, Fraction(0, 1)))

NothingToSolve == [error |-> "Cannot solve: No jobs or machines in scenario."]
SolverFailed == [error |-> "Solver failed to find a solution."]
UnexpectedError == [error |-> "An unexpected error occurred during solving"]

Kpis(sched) ==
    [status |-> "Success",
     makespan |-> sched.makespan,
     average_flow_time |-> Round(sched.average_flow_time, 2),
     machine_utilization |->
         [inst \in DOMAIN sched.machine_utilization |->
             Round(sched.machine_utilization[inst], 4)]]

SolveScheduleSuccess(row) ==
    [status |-> "Success",
     makespan |-> Kpis(row.schedule).makespan,
     average_flow_time |-> Kpis(row.schedule).average_flow_time,
     machine_utilization |-> Kpis(row.schedule).machine_utilization,
     new_schedule_id |-> row.id]

InitTool ==
    /\ jobs \in JobLists
    /\ machine_groups \in MachineGroupLists
    /\ NumUnits(jobs, machine_groups) <= MaxUnits
    /\ pc = "tool"
    /\ caller \in Tools
    /\ schedules \in {<<>>, <<EarlierSchedule>>}
    /\ RestInit
    /\ model = None
    /\ status = None
    /\ values = None
    /\ result = None
    /\ scores = None
    /\ prev = None
    /\ reply = None

\* lines 848-851 and 917-924: the rows are loaded; nothing to solve
LoadScenario ==
    /\ pc = "tool"
    /\ IF jobs = <<>> \/ machine_groups = <<>>
       THEN /\ reply' = NothingToSolve
            /\ pc' = "replied"
       ELSE /\ reply' = reply
            /\ pc' = "build"
    /\ UNCHANGED <<jobs, machine_groups, model, status, values, result, scores, prev,
                   caller, schedules>>
    /\ UNCHANGED restVars

\* lines 855-908: the old rows are deleted and committed, the new row is
\* added and committed; a commit that raises ends in the except clause
\* (rollback of what is not committed yet).
SolveScheduleReturn ==
    /\ pc = "done"
    /\ caller = "_tool_solve_schedule"
    /\ IF result = None
       THEN /\ reply' = SolverFailed
            /\ schedules' = schedules
       ELSE \/ /\ schedules' = <<SavedSchedule(NextScheduleId(schedules), result)>>
               /\ reply' = SolveScheduleSuccess(schedules'[1])
            \/ /\ schedules' = schedules          \* line 863 raises
               /\ reply' = UnexpectedError
            \/ /\ schedules' = <<>>               \* line 891 raises
               /\ reply' = UnexpectedError
    /\ pc' = "replied"
    /\ UNCHANGED <<jobs, machine_groups, model, status, values, result, scores, prev,
                   caller>>
    /\ UNCHANGED restVars

\* lines 928-942
SimulateSolveReturn ==
    /\ pc = "done"
    /\ caller = "_tool_simulate_solve"
    /\ IF result = None
       THEN reply' = SolverFailed
       ELSE reply' = Kpis(result)
    /\ pc' = "replied"
    /\ UNCHANGED <<jobs, machine_groups, model, status, values, result, scores, prev,
                   caller, schedules>>
    /\ UNCHANGED restVars

NextTool == LoadScenario \/ Next \/ SolveScheduleReturn \/ SimulateSolveReturn

SpecTool == InitTool /\ [][NextTool]_vars

(***************************************************************************)
(* After a tool reported a failure, one machine group is no longer among   *)
(* the scenario's machine groups and the tool is called again; prev keeps  *)
(* the machine groups, whether the solver was invoked and with what        *)
(* status, the return value of solve_jssp and the reply of the first call. *)
(***************************************************************************)
WithoutGroup(mgs, g) == SelectSeq(mgs, LAMBDA row : row.id # mgs[g].id)

CallAgainWithoutGroup ==
    /\ pc = "replied"
    /\ prev = None
    /\ reply \in {NothingToSolve, SolverFailed, UnexpectedError}
    /\ \E g \in DOMAIN machine_groups :
          machine_groups' = WithoutGroup(machine_groups, g)
    /\ prev' = [machine_groups |-> machine_groups, solver_invoked |-> model # None,
                status |-> status, result |-> result, reply |-> reply]
    /\ pc' = "tool"
    /\ model' = None
    /\ status' = None
    /\ values' = None
    /\ result' = None
    /\ scores' = None
    /\ reply' = None
    /\ UNCHANGED <<jobs, caller, schedules>>
    /\ UNCHANGED restVars

NextToolAgain == NextTool \/ CallAgainWithoutGroup

SpecToolAgain == InitTool /\ [][NextToolAgain]_vars

(***************************************************************************)
(* Two invocations of solve_jssp that run at the same time (the endpoints  *)
(* are synchronous functions, which the server runs on worker threads).    *)
(* Everything solve_jssp writes is local to the invocation (model, the     *)
(* maps, solver, the result lists: lines 6-20 and 127-136), so the second  *)
(* invocation has a frame of its own in `other`.  Both are given the       *)
(* machine groups of one machine park; the first is given a job list of    *)
(* one job at most, the second one job with one operation at most; given   *)
(* keeps what each was called with.                                        *)
(***************************************************************************)
MaxConcurrentHorizon == 2

solveVars == <<jobs, machine_groups, pc, model, status, values, result, scores, prev,
               caller, reply, schedules>>

ConcurrentJobLists ==
    {js \in JobLists : Len(js) <= 1 /\ horizon(js) <= MaxConcurrentHorizon}

OtherJobLists ==
    {js \in JobListsOfLen(0) \cup JobListsOfLen(1) :
        /\ horizon(js) <= MaxConcurrentHorizon
        /\ \A j \in DOMAIN js : Len(js[j].operation_list) <= 1}

Frame(js, mgs) ==
    [jobs |-> js, machine_groups |-> mgs, pc |-> "build", model |-> None,
     status |-> None, values |-> None, result |-> None]

InitConcurrent ==
    /\ jobs \in ConcurrentJobLists
    /\ machine_groups \in MachineGroupLists
    /\ NumUnits(jobs, machine_groups) <= MaxUnits
    /\ \E js \in OtherJobLists :
          /\ NumUnits(js, machine_groups) <= MaxUnits
          /\ other = [frame |-> Frame(js, machine_groups),
                      given |-> [first |-> [jobs |-> jobs, machine_groups |-> machine_groups],
                                 second |-> [jobs |-> js, machine_groups |-> machine_groups]]]
    /\ pc = "build"
    /\ model = None
    /\ status = None
    /\ values = None
    /\ result = None
    /\ scores = None
    /\ prev = None
    /\ caller = None
    /\ reply = None
    /\ schedules = <<>>
    /\ edited = {}
    /\ AppInit

\* lines 6-124 in the second invocation
OtherBuildModel ==
    /\ other # None
    /\ other.frame.pc = "build"
    /\ LET f == other.frame
       IN  other' = [other EXCEPT !.frame =
             IF all_machine_instances(f.machine_groups) = <<>>
                \/ UnknownGroup(f.jobs, f.machine_groups)
             THEN [f EXCEPT !.pc = "done", !.result = None]
             ELSE [f EXCEPT !.pc = "solve",
                            !.model = CpModel(f.jobs, f.machine_groups)]]
    /\ UNCHANGED <<solveVars, edited, appVars>>

\* lines 127-128 in the second invocation
OtherSolve ==
    /\ other # None
    /\ other.frame.pc = "solve"
    /\ \E feasible \in {Feasible(other.frame.model)} :
          IF feasible = {}
          THEN other' = [other EXCEPT !.frame.status = "INFEASIBLE",
                                      !.frame.values = None,
                                      !.frame.pc = "process"]
          ELSE \E v \in OptimalAmong(other.frame.model, feasible) :
                  other' = [other EXCEPT !.frame.status = "OPTIMAL",
                                         !.frame.values = v,
                                         !.frame.pc = "process"]
    /\ UNCHANGED <<solveVars, edited, appVars>>

\* lines 133-164 in the second invocation
OtherProcessResults ==
    /\ other # None
    /\ other.frame.pc = "process"
    /\ LET f == other.frame
       IN  other' = [other EXCEPT !.frame =
             IF f.status \in {"OPTIMAL", "FEASIBLE"}
             THEN [f EXCEPT !.pc = "done",
                            !.result = Decode(f.jobs, f.model, f.values)]
             ELSE [f EXCEPT !.pc = "done", !.result = None]]
    /\ UNCHANGED <<solveVars, edited, appVars>>

NextConcurrent == Next \/ OtherBuildModel \/ OtherSolve \/ OtherProcessResults

SpecConcurrent == InitConcurrent /\ [][NextConcurrent]_vars

(***************************************************************************)
(* The tools that write the operations of a job of the active scenario     *)
(* (scheduling.py): _tool_add_job, _tool_adjust_job, _tool_swap_operations.*)
(* jobs and machine_groups are the rows of the scenario; the operation     *)
(* rows of a job are kept in the order of their id (the primary key).      *)
(* The scenario starts empty or with one imported job, whose operation ids *)
(* are not zero-padded and whose predecessor lists are arbitrary.          *)
(***************************************************************************)
MaxEditOps == 2

\* f"{i+1:02d}"
Pad2(k) == IF k < 10 THEN "0" \o ToString(k) ELSE ToString(k)

\* f"{job_id}-OP{i+1:02d}" (lines 627, 694, 776)
ToolOpId(job_id, k) == job_id \o "-OP" \o Pad2(k)

\* the name column of a machine group
NameOf(id) == "Machine " \o id

EditGroupLists ==
    {mgs \in MachineGroupLists : \A k \in DOMAIN mgs : mgs[k].quantity = 1}

ImportedJobLists ==
    {js \in JobLists :
        /\ Len(js) <= 1
        /\ \A j \in DOMAIN js : js[j].priority = 1
        /\ \A k \in DOMAIN AllOperations(js) : AllOperations(js)[k].processing_time = 1}

\* the `operations` argument: dicts that name a group by id or by name, and
\* the same with a last dict that names no group or has processing time 0
OperationArgs ==
    LET good == {[machine_group_id |-> GroupIds[1], processing_time |-> 1],
                 [machine_group_id |-> NameOf(GroupIds[2]), processing_time |-> 1]}
        bad == {[machine_group_id |-> "?", processing_time |-> 1],
                [machine_group_id |-> GroupIds[1], processing_time |-> 0]}
        accepted == UNION {[1..n -> good] : n \in 0..MaxEditOps}
    IN  accepted \cup
        {Append(ops, b) : ops \in {a \in accepted : Len(a) < MaxEditOps}, b \in bad}

\* lines 598-604 and 662-668: "" when the reference is no id and no name
final_mg_id(mg_id_or_name, all_mgs) ==
    LET valid_mg_ids == {all_mgs[k].id : k \in DOMAIN all_mgs}
    IN  IF mg_id_or_name \in valid_mg_ids THEN mg_id_or_name
        ELSE IF \E id \in valid_mg_ids : NameOf(id) = mg_id_or_name
             THEN CHOOSE id \in valid_mg_ids : NameOf(id) = mg_id_or_name
             ELSE ""

\* lines 593-618 and 657-682: the error of the first operation that is not
\* accepted, None when all are
ValidationErrorOf(operations, all_mgs) ==
    LET bad == {i \in DOMAIN operations :
                   \/ final_mg_id(operations[i].machine_group_id, all_mgs) = ""
                   \/ operations[i].processing_time <= 0}
    IN  IF bad = {} THEN None
        ELSE LET i == MinOf(bad)
             IN  IF final_mg_id(operations[i].machine_group_id, all_mgs) = ""
                 THEN [error |-> "Invalid machine_group_id or name", operation |-> i - 1]
                 ELSE [error |-> "Invalid processing_time", operation |-> i - 1]

\* lines 625-638 and 692-705: the new operation rows of the job
new_operations(job_id, operations, all_mgs) ==
    [k \in DOMAIN operations |->
        Operation(ToolOpId(job_id, k),
                  final_mg_id(operations[k].machine_group_id, all_mgs),
                  operations[k].processing_time,
                  IF k > 1 THEN {ToolOpId(job_id, k - 1)} ELSE {})]

\* the position of an operation id among the ids of its job: the ids of one
\* job differ in the number after "-OP" only, which has one digit here
IdRank(job_id, id) ==
    CHOOSE k \in 1..9 : id \in {ToolOpId(job_id, k), job_id \o "-OP" \o ToString(k)}

\* sorted(..., key=lambda op: op.id), lines 763-766
SortedById(job_id, ops) ==
    [k \in DOMAIN ops |->
        CHOOSE op \in Range(ops) :
            Cardinality({o \in Range(ops) : IdRank(job_id, o.id) < IdRank(job_id, op.id)})
                = k - 1]

\* line 772
Swapped(op_list, idx1, idx2) ==
    [i \in DOMAIN op_list |->
        IF i = idx1 + 1 THEN op_list[idx2 + 1]
        ELSE IF i = idx2 + 1 THEN op_list[idx1 + 1]
        ELSE op_list[i]]

\* variant: the predecessor is the id the previous row had before the loop
Relinked_to_old_ids(job_id, op_list) ==
    [i \in DOMAIN op_list |->
        [op_list[i] EXCEPT !.id = ToolOpId(job_id, i),
                           !.predecessors = IF i > 1 THEN {op_list[i - 1].id} ELSE {}]]

\* lines 775-778: the previous row already has its new id when it is read
Relinked(job_id, op_list) ==
    [i \in DOMAIN op_list |->
        [op_list[i] EXCEPT !.id = ToolOpId(job_id, i),
                           !.predecessors = IF i > 1 THEN {ToolOpId(job_id, i - 1)} ELSE {}]]

\* line 779: a row is given the primary key that another row still has
PrimaryKeyClash(old, new) ==
    \E i, j \in DOMAIN old : i # j /\ new[i].id # old[i].id /\ new[i].id = old[j].id

JobIndex(job_id) == CHOOSE j \in DOMAIN jobs : jobs[j].id = job_id

InitEdit ==
    /\ machine_groups \in EditGroupLists
    /\ jobs \in ImportedJobLists
    /\ pc = "tool"
    /\ model = None
    /\ status = None
    /\ values = None
    /\ result = None
    /\ scores = None
    /\ prev = None
    /\ caller = None
    /\ reply = None
    /\ schedules = <<>>
    /\ other = None
    /\ edited = {}
    /\ AppInit

editFrame == <<machine_groups, pc, model, status, values, result, scores, prev, caller,
               schedules, other, appVars>>

\* lines 585-642; the new job id (line 621) is one no job has, the priority
\* is the default of the parameter
tool_add_job ==
    /\ pc = "tool"
    /\ \E k \in DOMAIN JobIds :
          /\ \A j \in DOMAIN jobs : jobs[j].id # JobIds[k]
          /\ \A q \in 1..(k - 1) : \E j \in DOMAIN jobs : jobs[j].id = JobIds[q]
          /\ \E operations \in OperationArgs, priority \in {1} :
                \E error \in {ValidationErrorOf(operations, machine_groups)} :
                   IF error # None
                   THEN /\ reply' = error
                        /\ UNCHANGED <<jobs, edited>>
                   ELSE /\ jobs' = Append(jobs, Job(JobIds[k], priority,
                                      new_operations(JobIds[k], operations, machine_groups)))
                        /\ edited' = edited \cup {JobIds[k]}
                        /\ reply' = [text |-> "Successfully added", job_id |-> JobIds[k]]
    /\ UNCHANGED editFrame

\* lines 644-707
tool_adjust_job ==
    /\ pc = "tool"
    /\ \E job_id \in Range(JobIds), operations \in OperationArgs :
          IF \A j \in DOMAIN jobs : jobs[j].id # job_id
          THEN /\ reply' = [text |-> "Warning: Job ID not found", job_id |-> job_id]
               /\ UNCHANGED <<jobs, edited>>
          ELSE \E error \in {ValidationErrorOf(operations, machine_groups)} :
                  IF error # None
                  THEN /\ reply' = error
                       /\ UNCHANGED <<jobs, edited>>
                  ELSE /\ jobs' = [jobs EXCEPT ![JobIndex(job_id)].operation_list =
                                     new_operations(job_id, operations, machine_groups)]
                       /\ edited' = edited \cup {job_id}
                       /\ reply' = [text |-> "Successfully adjusted", job_id |-> job_id]
    /\ UNCHANGED editFrame

\* lines 755-780; the commit of line 779 raises when a primary key clashes
tool_swap_operations ==
    /\ pc = "tool"
    /\ \E job_id \in Range(JobIds), idx1, idx2 \in 0..MaxEditOps :
          IF \A j \in DOMAIN jobs : jobs[j].id # job_id
          THEN /\ reply' = [text |-> "Warning: Job ID not found", job_id |-> job_id]
               /\ UNCHANGED <<jobs, edited>>
          ELSE LET op_list == SortedById(job_id, jobs[JobIndex(job_id)].operation_list)
                   op_count == Len(op_list)
               IN  IF ~(idx1 < op_count /\ idx2 < op_count)
                   THEN /\ reply' = [text |-> "Error: Indices out of bounds.", job_id |-> job_id]
                        /\ UNCHANGED <<jobs, edited>>
                   ELSE IF idx1 = idx2
                   THEN /\ reply' = [text |-> "Warning: Cannot swap with self.", job_id |-> job_id]
                        /\ UNCHANGED <<jobs, edited>>
                   ELSE LET swapped == Swapped(op_list, idx1, idx2)
                            relinked == Relinked(job_id, swapped)
                        IN  IF PrimaryKeyClash(swapped, relinked)
                            THEN /\ reply' = [exception |-> "IntegrityError", job_id |-> job_id]
                                 /\ UNCHANGED <<jobs, edited>>
                            ELSE /\ jobs' = [jobs EXCEPT ![JobIndex(job_id)].operation_list =
                                                SortedById(job_id, relinked)]
                                 /\ edited' = edited \cup {job_id}
                                 /\ reply' = [text |-> "Successfully swapped", job_id |-> job_id]
    /\ UNCHANGED editFrame

NextEdit == tool_add_job \/ tool_adjust_job \/ tool_swap_operations

SpecEdit == InitEdit /\ [][NextEdit]_vars

(***************************************************************************)
(* The solve tools called by requests that are served at the same time     *)
(* (/solve and /solve_active_scenario are synchronous endpoints, which the *)
(* server runs on worker threads; each request has its own database        *)
(* session).  A call is split where it commits: what a call has not        *)
(* committed yet no other call sees.  Scenario 1 holds jobs and            *)
(* machine_groups; scenario 2 has no jobs and no machine groups any more,  *)
(* only the schedule saved while it had some.                              *)
(***************************************************************************)
MaxCalls == 2

CallIds == 1 .. MaxCalls

ScenarioIds == {1, 2}

ScenarioJobs(scenario_id) == IF scenario_id = 1 THEN jobs ELSE <<>>

ScenarioMachineGroups(scenario_id) == IF scenario_id = 1 THEN machine_groups ELSE <<>>

\* what solve_jssp can return for an input
solve_jssp(js, mgs) ==
    IF all_machine_instances(mgs) = <<>> \/ UnknownGroup(js, mgs)
    THEN {None}
    ELSE LET m == CpModel(js, mgs)
             feasible == Feasible(m)
         IN  IF feasible = {} THEN {None}
             ELSE {Decode(js, m, v) : v \in OptimalAmong(m, feasible)}

\* a Schedule row with its ScheduledOperation rows
ScheduleRow(id, scenario_id, timestamp, sched) ==
    [id |-> id, scenario_id |-> scenario_id, timestamp |-> timestamp, schedule |-> sched]

\* the row an earlier solve of the scenario saved
EarlierRow(scenario_id) ==
    ScheduleRow(scenario_id, scenario_id, 0, EarlierSchedule.schedule)

RowsOf(rows, scenario_id) == {r \in rows : r.scenario_id = scenario_id}

NoScheduleSaved == [status_code |-> 404]

\* lines 238-249: the newest row of the scenario
get_latest_schedule_for_scenario(scenario_id) ==
    LET rows == RowsOf(saved, scenario_id)
    IN  IF rows = {} THEN NoScheduleSaved
        ELSE CHOOSE r \in rows : \A q \in rows : q.timestamp <= r.timestamp

\* what the database holds
Persisted(rows, js, mgs) == [saved |-> rows, jobs |-> js, machine_groups |-> mgs]

NoCall ==
    [tool |-> "none", scenario_id |-> 0, pc |-> "idle", result |-> None, reply |-> None,
     before |-> None, after |-> None]

\* a call that has returned
ReturnedCall(tool, scenario_id, r, answer, before, after) ==
    [tool |-> tool, scenario_id |-> scenario_id, pc |-> "returned", result |-> r,
     reply |-> answer, before |-> before, after |-> after]

\* the jobs of scenario 1: at most one job with at most one operation
SaveJobLists ==
    {js \in ConcurrentJobLists :
        \A j \in DOMAIN js : js[j].priority = 1 /\ Len(js[j].operation_list) <= 1}

\* the machine groups of scenario 1: quantities 0 and 1
SaveGroupLists ==
    {mgs \in MachineGroupLists : \A k \in DOMAIN mgs : mgs[k].quantity <= 1}

InitSave ==
    /\ jobs \in SaveJobLists
    /\ machine_groups \in SaveGroupLists
    /\ pc = "tool"
    /\ model = None
    /\ status = None
    /\ values = None
    /\ result = None
    /\ scores = None
    /\ prev = None
    /\ caller = None
    /\ reply = None
    /\ schedules = <<>>
    /\ other = None
    /\ edited = {}
    /\ saved \in {{EarlierRow(2)}, {EarlierRow(1), EarlierRow(2)}}
    /\ calls = [c \in CallIds |-> NoCall]
    /\ next_id = 3
    /\ completed = <<>>
    /\ NoSessions
    /\ interpret = None

saveFrame == <<jobs, machine_groups, pc, model, status, values, result, scores, prev,
               caller, reply, schedules, other, edited, sessionVars, interpret>>

\* lines 845-856 of _tool_solve_schedule: nothing is written yet
StartSolveSchedule(c) ==
    /\ calls[c].pc = "idle"
    /\ \E scenario_id \in ScenarioIds :
          LET before == Persisted(saved, jobs, machine_groups)
              js == ScenarioJobs(scenario_id)
              mgs == ScenarioMachineGroups(scenario_id)
          IN  IF js = <<>> \/ mgs = <<>>
              THEN /\ calls' = [calls EXCEPT ![c] =
                          ReturnedCall("_tool_solve_schedule", scenario_id, None,
                                       NothingToSolve, before, before)]
                   /\ completed' = Append(completed, c)
              ELSE \E solver_result \in solve_jssp(js, mgs) :
                      IF solver_result = None
                      THEN /\ calls' = [calls EXCEPT ![c] =
                                  ReturnedCall("_tool_solve_schedule", scenario_id, None,
                                               SolverFailed, before, before)]
                           /\ completed' = Append(completed, c)
                      ELSE /\ calls' = [calls EXCEPT ![c] =
                                  [tool |-> "_tool_solve_schedule",
                                   scenario_id |-> scenario_id, pc |-> "solved",
                                   result |-> solver_result, reply |-> None,
                                   before |-> before, after |-> None]]
                           /\ completed' = completed
    /\ UNCHANGED <<saved, next_id>>
    /\ UNCHANGED saveFrame

\* lines 858-863: the rows of the scenario are deleted and the deletion is
\* committed; a commit that raises is rolled back (lines 905-908)
DeleteOldSchedules(c) ==
    /\ calls[c].pc = "solved"
    /\ \/ /\ saved' = saved \ RowsOf(saved, calls[c].scenario_id)
          /\ calls' = [calls EXCEPT ![c].pc = "deleted"]
          /\ completed' = completed
       \/ /\ saved' = saved
          /\ calls' = [calls EXCEPT ![c].pc = "returned", ![c].reply = UnexpectedError,
                                    ![c].after = Persisted(saved, jobs, machine_groups)]
          /\ completed' = Append(completed, c)
    /\ UNCHANGED next_id
    /\ UNCHANGED saveFrame

\* lines 865-908: the new row is added and committed; the timestamp of line
\* 870 is read in the step that inserts the row, and no two rows get the same
InsertNewSchedule(c) ==
    /\ calls[c].pc = "deleted"
    /\ \/ LET new_schedule_db == ScheduleRow(next_id, calls[c].scenario_id, next_id,
                                             calls[c].result)
          IN  /\ saved' = saved \cup {new_schedule_db}
              /\ next_id' = next_id + 1
              /\ calls' = [calls EXCEPT ![c].pc = "returned",
                                        ![c].reply = SolveScheduleSuccess(new_schedule_db),
                                        ![c].after = Persisted(saved', jobs, machine_groups)]
       \/ /\ saved' = saved
          /\ next_id' = next_id
          /\ calls' = [calls EXCEPT ![c].pc = "returned", ![c].reply = UnexpectedError,
                                    ![c].after = Persisted(saved, jobs, machine_groups)]
    /\ completed' = Append(completed, c)
    /\ UNCHANGED saveFrame

\* _tool_simulate_solve with the new row added and committed before the return
SimulateSolve_saving(c) ==
    /\ calls[c].pc = "idle"
    /\ \E scenario_id \in ScenarioIds :
          LET before == Persisted(saved, jobs, machine_groups)
              js == ScenarioJobs(scenario_id)
              mgs == ScenarioMachineGroups(scenario_id)
          IN  IF js = <<>> \/ mgs = <<>>
              THEN /\ calls' = [calls EXCEPT ![c] =
                          ReturnedCall("_tool_simulate_solve", scenario_id, None,
                                       NothingToSolve, before, before)]
                   /\ UNCHANGED <<saved, next_id>>
              ELSE \E final_schedule \in solve_jssp(js, mgs) :
                      IF final_schedule = None
                      THEN /\ calls' = [calls EXCEPT ![c] =
                                  ReturnedCall("_tool_simulate_solve", scenario_id, None,
                                               SolverFailed, before, before)]
                           /\ UNCHANGED <<saved, next_id>>
                      ELSE /\ saved' = saved \cup
                                  {ScheduleRow(next_id, scenario_id, next_id, final_schedule)}
                           /\ next_id' = next_id + 1
                           /\ calls' = [calls EXCEPT ![c] =
                                  ReturnedCall("_tool_simulate_solve", scenario_id,
                                               final_schedule, Kpis(final_schedule), before,
                                               Persisted(saved', jobs, machine_groups))]
    /\ completed' = Append(completed, c)
    /\ UNCHANGED saveFrame

\* lines 915-942 of _tool_simulate_solve: the call reads the rows of the
\* scenario, runs the solver and returns; it adds nothing to the session and
\* commits nothing
SimulateSolve(c) ==
    /\ calls[c].pc = "idle"
    /\ \E scenario_id \in ScenarioIds :
          LET before == Persisted(saved, jobs, machine_groups)
              js == ScenarioJobs(scenario_id)
              mgs == ScenarioMachineGroups(scenario_id)
          IN  IF js = <<>> \/ mgs = <<>>
              THEN calls' = [calls EXCEPT ![c] =
                          ReturnedCall("_tool_simulate_solve", scenario_id, None,
                                       NothingToSolve, before, before)]
              ELSE \E final_schedule \in solve_jssp(js, mgs) :
                      IF final_schedule = None
                      THEN calls' = [calls EXCEPT ![c] =
                                  ReturnedCall("_tool_simulate_solve", scenario_id, None,
                                               SolverFailed, before, before)]
                      ELSE calls' = [calls EXCEPT ![c] =
                                  ReturnedCall("_tool_simulate_solve", scenario_id,
                                               final_schedule, Kpis(final_schedule), before,
                                               Persisted(saved, jobs, machine_groups))]
    /\ completed' = Append(completed, c)
    /\ UNCHANGED <<saved, next_id>>
    /\ UNCHANGED saveFrame

NextSave ==
    \E c \in CallIds :
        \/ StartSolveSchedule(c)
        \/ DeleteOldSchedules(c)
        \/ InsertNewSchedule(c)
        \/ SimulateSolve(c)

SpecSave == InitSave /\ [][NextSave]_vars

(***************************************************************************)
(* Sessions and scenarios (scheduling.py, lines 71-157, 288-329, 352-432,  *)
(* 547-568).  user_sessions is a dictionary of the server process; every   *)
(* endpoint other than login and logout gets its AppContext from           *)
(* get_user_context.  Of a scenario only its row is kept here (id, owner,  *)
(* name).                                                                  *)
(***************************************************************************)
MaxTokens == 2

MaxScenarios == 3

UserIds == {1, 2}

\* the tokens a request can carry: those login can issue and one it never does
Tokens == 0 .. MaxTokens

Scenario(id, user_id, name) == [id |-> id, user_id |-> user_id, name |-> name]

LiveData(user_id) == Scenario(user_id, user_id, "Live Data")

AppContext(user_id, scenario_id) ==
    [current_user_id |-> user_id, current_scenario_id |-> scenario_id]

Unauthorized == [status_code |-> 401]

\* lines 141-157
get_user_context(session_token) ==
    IF session_token \notin DOMAIN user_sessions THEN Unauthorized
    ELSE IF user_sessions[session_token].current_user_id = 0
            \/ user_sessions[session_token].current_scenario_id = 0
    THEN Unauthorized
    ELSE user_sessions[session_token]

\* db.get(Scenario, scenario_id): the row or None
GetScenario(scenario_id) ==
    IF \E row \in scenarios : row.id = scenario_id
    THEN CHOOSE row \in scenarios : row.id = scenario_id
    ELSE None

Response(op, session_token, arg, status_code, detail) ==
    [op |-> op, token |-> session_token, arg |-> arg, status_code |-> status_code,
     detail |-> detail, before |-> user_sessions]

InitSession ==
    /\ jobs = <<>>
    /\ machine_groups = <<>>
    /\ pc = "tool"
    /\ model = None
    /\ status = None
    /\ values = None
    /\ result = None
    /\ scores = None
    /\ prev = None
    /\ caller = None
    /\ reply = None
    /\ schedules = <<>>
    /\ other = None
    /\ edited = {}
    /\ saved = {}
    /\ calls = <<>>
    /\ next_id = 1
    /\ completed = <<>>
    /\ scenarios = {LiveData(u) : u \in UserIds}
    /\ user_sessions = <<>>
    /\ issued = 0
    /\ next_scenario_id = Cardinality(UserIds) + 1
    /\ revoked = {}
    /\ response = None
    /\ interpret = None

sessionFrame == <<jobs, machine_groups, pc, model, status, values, result, scores, prev,
                  caller, reply, schedules, other, edited, saved, calls, next_id,
                  completed, interpret>>

\* variant: the lowest token that names no session at the moment
uuid4_lowest_free == CHOOSE t \in 1 .. MaxTokens + 1 :
    /\ t \notin DOMAIN user_sessions
    /\ \A q \in 1 .. (t - 1) : q \in DOMAIN user_sessions

\* str(uuid.uuid4()), line 113: a token no login returned before
uuid4 == issued + 1

\* lines 91-123; the user's "Live Data" scenario always exists (it can be
\* neither deleted nor renamed)
login(user_id, password_ok) ==
    /\ issued < MaxTokens
    /\ IF ~password_ok
       THEN /\ response' = Response("login", 0, user_id, 401, "Invalid username or password")
            /\ UNCHANGED <<user_sessions, issued>>
       ELSE LET live_scenario == CHOOSE row \in scenarios :
                                     row.user_id = user_id /\ row.name = "Live Data"
                session_token == uuid4
            IN  /\ user_sessions' =
                       [t \in DOMAIN user_sessions \cup {session_token} |->
                           IF t = session_token
                           THEN AppContext(user_id, live_scenario.id)
                           ELSE user_sessions[t]]
                /\ issued' = issued + 1
                /\ response' = Response("login", session_token, user_id, 200, "session_token")
    /\ UNCHANGED <<scenarios, next_scenario_id, revoked>>
    /\ UNCHANGED sessionFrame

\* lines 126-138
logout(session_token) ==
    /\ IF session_token \in DOMAIN user_sessions
       THEN /\ user_sessions' = [t \in DOMAIN user_sessions \ {session_token} |->
                                    user_sessions[t]]
            /\ revoked' = revoked \cup {session_token}
            /\ response' = Response("logout", session_token, 0, 200, "Logged out successfully")
       ELSE /\ response' = Response("logout", session_token, 0, 200,
                                    "No active session found, logged out.")
            /\ UNCHANGED <<user_sessions, revoked>>
    /\ UNCHANGED <<scenarios, issued, next_scenario_id>>
    /\ UNCHANGED sessionFrame

\* variant: the scenario is selected whoever owns it
select_any_scenario(op, session_token, scenario_id) ==
    LET context == get_user_context(session_token)
        scenario == GetScenario(scenario_id)
    IN  IF context = Unauthorized
        THEN /\ response' = Response(op, session_token, scenario_id, 401,
                                     "Invalid or expired session token.")
             /\ UNCHANGED user_sessions
        ELSE IF scenario = None
        THEN /\ response' = Response(op, session_token, scenario_id, 404, "not found")
             /\ UNCHANGED user_sessions
        ELSE /\ user_sessions' =
                    [user_sessions EXCEPT ![session_token].current_scenario_id = scenario.id]
             /\ response' = Response(op, session_token, scenario_id, 200,
                                     "Active scenario changed")

\* lines 288-298 and 554-568: the same test in the tool and in the endpoint
\* (the tool returns an error text where the endpoint raises 404 or 403)
select_scenario(op, session_token, scenario_id) ==
    LET context == get_user_context(session_token)
        scenario == GetScenario(scenario_id)
    IN  IF context = Unauthorized
        THEN /\ response' = Response(op, session_token, scenario_id, 401,
                                     "Invalid or expired session token.")
             /\ UNCHANGED user_sessions
        ELSE IF scenario = None
        THEN /\ response' = Response(op, session_token, scenario_id, 404, "not found")
             /\ UNCHANGED user_sessions
        ELSE IF scenario.user_id # context.current_user_id
        THEN /\ response' = Response(op, session_token, scenario_id, 403,
                                     "does not belong to you")
             /\ UNCHANGED user_sessions
        ELSE /\ user_sessions' =
                    [user_sessions EXCEPT ![session_token].current_scenario_id = scenario.id]
             /\ response' = Response(op, session_token, scenario_id, 200,
                                     "Active scenario changed")

\* lines 288-298, called by /interpret
tool_select_scenario(session_token, scenario_id) ==
    /\ select_scenario("_tool_select_scenario", session_token, scenario_id)
    /\ UNCHANGED <<scenarios, issued, next_scenario_id, revoked>>
    /\ UNCHANGED sessionFrame

\* lines 547-568
select_user_scenario(session_token, scenario_id) ==
    /\ select_scenario("select_user_scenario", session_token, scenario_id)
    /\ UNCHANGED <<scenarios, issued, next_scenario_id, revoked>>
    /\ UNCHANGED sessionFrame

\* lines 352-432: the new Scenario row (the copies of the jobs and machine
\* groups of the base scenario belong to the new scenario alone)
tool_create_scenario(session_token, base_scenario_id) ==
    /\ next_scenario_id <= MaxScenarios
    /\ LET context == get_user_context(session_token)
           base_scenario == GetScenario(base_scenario_id)
       IN  IF context = Unauthorized
           THEN /\ response' = Response("_tool_create_scenario", session_token,
                                        base_scenario_id, 401,
                                        "Invalid or expired session token.")
                /\ UNCHANGED <<scenarios, next_scenario_id>>
           ELSE IF base_scenario = None
           THEN /\ response' = Response("_tool_create_scenario", session_token,
                                        base_scenario_id, 404, "Base scenario not found")
                /\ UNCHANGED <<scenarios, next_scenario_id>>
           ELSE IF base_scenario.user_id # context.current_user_id
           THEN /\ response' = Response("_tool_create_scenario", session_token,
                                        base_scenario_id, 404, "Base scenario not found")
                /\ UNCHANGED <<scenarios, next_scenario_id>>
           ELSE /\ scenarios' = scenarios \cup
                       {Scenario(next_scenario_id, context.current_user_id, "What-If")}
                /\ next_scenario_id' = next_scenario_id + 1
                /\ response' = Response("_tool_create_scenario", session_token,
                                        base_scenario_id, 200, "created")
    /\ UNCHANGED <<user_sessions, issued, revoked>>
    /\ UNCHANGED sessionFrame

\* lines 314-329
tool_delete_scenario(session_token, scenario_id) ==
    /\ LET context == get_user_context(session_token)
           scenario == GetScenario(scenario_id)
       IN  IF context = Unauthorized
           THEN /\ response' = Response("_tool_delete_scenario", session_token, scenario_id,
                                        401, "Invalid or expired session token.")
                /\ UNCHANGED scenarios
           ELSE IF scenario = None
           THEN /\ response' = Response("_tool_delete_scenario", session_token, scenario_id,
                                        404, "not found")
                /\ UNCHANGED scenarios
           ELSE IF scenario.user_id # context.current_user_id
           THEN /\ response' = Response("_tool_delete_scenario", session_token, scenario_id,
                                        403, "You do not have permission to delete this.")
                /\ UNCHANGED scenarios
           ELSE IF scenario.name = "Live Data"
           THEN /\ response' = Response("_tool_delete_scenario", session_token, scenario_id,
                                        400, "Cannot delete the primary 'Live Data' scenario.")
                /\ UNCHANGED scenarios
           ELSE IF scenario.id = context.current_scenario_id
           THEN /\ response' = Response("_tool_delete_scenario", session_token, scenario_id,
                                        400, "Cannot delete the currently active scenario.")
                /\ UNCHANGED scenarios
           ELSE /\ scenarios' = scenarios \ {scenario}
                /\ response' = Response("_tool_delete_scenario", session_token, scenario_id,
                                        200, "Successfully deleted scenario")
    /\ UNCHANGED <<user_sessions, issued, next_scenario_id, revoked>>
    /\ UNCHANGED sessionFrame

NextSession ==
    \/ \E user_id \in UserIds, password_ok \in BOOLEAN : login(user_id, password_ok)
    \/ \E t \in Tokens : logout(t)
    \/ \E t \in Tokens, id \in 1 .. MaxScenarios + 1 : tool_select_scenario(t, id)
    \/ \E t \in Tokens, id \in 1 .. MaxScenarios + 1 : select_user_scenario(t, id)
    \/ \E t \in Tokens, id \in 1 .. MaxScenarios + 1 : tool_create_scenario(t, id)
    \/ \E t \in Tokens, id \in 1 .. MaxScenarios + 1 : tool_delete_scenario(t, id)

SpecSession == InitSession /\ [][NextSession]_vars

(***************************************************************************)
(* The orchestrator of /interpret (scheduling.py, lines 1046-1191): a loop *)
(* of at most max_turns turns, each of which asks the LLM once.  What the  *)
(* LLM answers and whether a tool raises are not decided by this code:     *)
(* every answer and both tool outcomes are possible in every turn.  What   *)
(* the tools write is the subject of the sections above.                   *)
(***************************************************************************)
max_turns == 10

\* some of the names of tool_function_map (lines 1020-1043)
tool_function_map == {"solve_schedule", "simulate_solve", "select_scenario"}

\* what `await interpret_command(history=history)` can give: a dict with
\* 'error', an exception, content without usable parts, text parts only
\* (possibly all empty), or parts with one function call or more, for a
\* tool of the map or for another name
LLMAnswers ==
    {[kind |-> "error", name |-> "", text |-> ""],
     [kind |-> "exception", name |-> "", text |-> ""],
     [kind |-> "no parts", name |-> "", text |-> ""],
     [kind |-> "text", name |-> "", text |-> "explanation"],
     [kind |-> "text", name |-> "", text |-> ""]}
    \cup {[kind |-> k, name |-> n, text |-> ""] :
            k \in {"function_call", "function_calls"},
            n \in tool_function_map \cup {"Unknown"}}

HttpError(detail) == [status_code |-> 500, detail |-> detail]

InitInterpret ==
    /\ jobs = <<>>
    /\ machine_groups = <<>>
    /\ pc = "tool"
    /\ model = None
    /\ status = None
    /\ values = None
    /\ result = None
    /\ scores = None
    /\ prev = None
    /\ caller = None
    /\ reply = None
    /\ schedules = <<>>
    /\ other = None
    /\ edited = {}
    /\ saved = {}
    /\ calls = <<>>
    /\ next_id = 1
    /\ completed = <<>>
    /\ NoSessions
    /\ interpret = [pc |-> "loop", turn |-> 0, llm_calls |-> 0, function_turns |-> 0,
                    tools_run |-> 0, new_schedule_id |-> FALSE, answer |-> None,
                    outcome |-> None]

interpretFrame == <<jobs, machine_groups, pc, model, status, values, result, scores, prev,
                    caller, reply, schedules, other, edited, saved, calls, next_id,
                    completed, sessionVars>>

\* variant: the loop takes one turn more, for turn in range(max_turns + 1)
AskLLM_one_turn_more ==
    /\ interpret # None
    /\ interpret.pc = "loop"
    /\ interpret.turn < max_turns + 1
    /\ \E answer \in LLMAnswers :
          interpret' = [interpret EXCEPT !.pc = "answered", !.answer = answer,
                                         !.llm_calls = @ + 1]
    /\ UNCHANGED interpretFrame

\* lines 1057-1062: the LLM is asked, once in a turn
AskLLM ==
    /\ interpret # None
    /\ interpret.pc = "loop"
    /\ interpret.turn < max_turns
    /\ \E answer \in LLMAnswers :
          interpret' = [interpret EXCEPT !.pc = "answered", !.answer = answer,
                                         !.llm_calls = @ + 1]
    /\ UNCHANGED interpretFrame

\* lines 1063-1191: the rest of the turn.  Of several function calls only
\* the first is looked at (line 1087); a name that is not in the map and a
\* tool that raises give an error result that goes back to the LLM (lines
\* 1094-1110), and the loop continues (line 1120).
HandleAnswer ==
    /\ interpret # None
    /\ interpret.pc = "answered"
    /\ LET answer == interpret.answer
       IN  IF answer.kind = "error"
           THEN interpret' = [interpret EXCEPT !.pc = "done",
                                               !.outcome = HttpError("LLM Error")]
           ELSE IF answer.kind = "exception"
           THEN interpret' = [interpret EXCEPT !.pc = "done",
                                               !.outcome = HttpError("Orchestrator loop error")]
           ELSE IF answer.kind = "no parts"
           THEN interpret' = [interpret EXCEPT
                                 !.pc = "done",
                                 !.outcome = HttpError("LLM response empty/unprocessable.")]
           ELSE IF answer.kind \in {"function_call", "function_calls"}
           THEN \E tool_raises \in BOOLEAN :
                   interpret' =
                       [interpret EXCEPT
                           !.pc = "loop",
                           !.answer = None,
                           !.function_turns = @ + 1,
                           !.tools_run = IF answer.name \in tool_function_map
                                         THEN @ + 1 ELSE @,
                           !.new_schedule_id =
                               IF answer.name = "solve_schedule" /\ ~tool_raises
                               THEN TRUE ELSE @,
                           !.turn = @ + 1]
           ELSE IF answer.text = ""
           THEN interpret' = [interpret EXCEPT
                                 !.pc = "done",
                                 !.outcome = HttpError("LLM provided an empty response.")]
           ELSE interpret' = [interpret EXCEPT
                                 !.pc = "done",
                                 !.outcome = [status_code |-> 200, detail |-> answer.text]]
    /\ UNCHANGED interpretFrame

\* line 1191: the loop ran out of turns
ExceededMaximumTurns ==
    /\ interpret # None
    /\ interpret.pc = "loop"
    /\ interpret.turn = max_turns
    /\ interpret' = [interpret EXCEPT
                        !.pc = "done",
                        !.outcome = HttpError("Orchestration exceeded maximum turns")]
    /\ UNCHANGED interpretFrame

NextInterpret == AskLLM \/ HandleAnswer \/ ExceededMaximumTurns

\* the coroutine is resumed whenever the awaited LLM call has returned
SpecInterpret == InitInterpret /\ [][NextInterpret]_vars /\ WF_vars(NextInterpret)

(***************************************************************************)
(* Vocabulary of the properties.                                           *)
(***************************************************************************)
Returned == pc = "done" /\ result # None

InputKeys ==
    {<<jobs[j].id, jobs[j].operation_list[k].id>> :
        <<j, k>> \in {x \in (DOMAIN jobs) \X (1..MaxHorizon) :
                        x[2] \in DOMAIN jobs[x[1]].operation_list}}

Scheduled(job_id, operation_id) ==
    {k \in DOMAIN result.scheduled_operations :
        /\ result.scheduled_operations[k].job_id = job_id
        /\ result.scheduled_operations[k].operation_id = operation_id}

\* the entry of the returned schedule for an operation that appears once
Entry(job_id, operation_id) ==
    result.scheduled_operations[CHOOSE k \in Scheduled(job_id, operation_id) : TRUE]

GroupQuantity(id) == QuantityOf(machine_groups, id)

(***************************************************************************)
(* C1: when solve_jssp returns a Schedule, every operation of every input  *)
(* job appears exactly once in scheduled_operations (by job_id and         *)
(* operation_id), and every scheduled operation is an operation of the     *)
(* input.                                                                  *)
(***************************************************************************)
C1_EveryOperationOnce ==
    Returned =>
        /\ \A key \in InputKeys : Cardinality(Scheduled(key[1], key[2])) = 1
        /\ \A k \in DOMAIN result.scheduled_operations :
              <<result.scheduled_operations[k].job_id,
                result.scheduled_operations[k].operation_id>> \in InputKeys

C1_Witness ==
    /\ Returned
    /\ Len(jobs) = 2
    /\ Len(result.scheduled_operations) = 3

(***************************************************************************)
(* C2: in a returned Schedule every operation starts no earlier than the   *)
(* end of each predecessor it lists that belongs to the same job, also     *)
(* when the operation or the predecessor is on a group with quantity > 1.  *)
(***************************************************************************)
C2_PrecedenceRespected ==
    Returned =>
        \A j \in DOMAIN jobs : \A k, q \in DOMAIN jobs[j].operation_list :
            LET op == jobs[j].operation_list[k]
                pred == jobs[j].operation_list[q]
            IN  pred.id \in op.predecessors =>
                    Entry(jobs[j].id, op.id).start_time
                        >= Entry(jobs[j].id, pred.id).end_time

C2_Witness ==
    /\ Returned
    /\ \E j \in DOMAIN jobs : \E k, q \in DOMAIN jobs[j].operation_list :
          LET op == jobs[j].operation_list[k]
              pred == jobs[j].operation_list[q]
          IN  /\ pred.id \in op.predecessors
              /\ GroupQuantity(op.machine_group_id) > 1
              /\ GroupQuantity(pred.machine_group_id) > 1
              /\ Entry(jobs[j].id, op.id).machine_instance_id
                    # Entry(jobs[j].id, pred.id).machine_instance_id
              /\ Entry(jobs[j].id, op.id).start_time
                    = Entry(jobs[j].id, pred.id).end_time

(***************************************************************************)
(* C3: in a returned Schedule the half-open intervals [start_time,         *)
(* end_time) of the operations assigned to one machine instance are        *)
(* pairwise disjoint.                                                      *)
(***************************************************************************)
C3_NoOverlapOnInstance ==
    Returned =>
        \A a, b \in DOMAIN result.scheduled_operations :
            LET x == result.scheduled_operations[a]
                y == result.scheduled_operations[b]
            IN  (a # b /\ x.machine_instance_id = y.machine_instance_id)
                    => (x.end_time <= y.start_time \/ y.end_time <= x.start_time)

C3_Witness ==
    /\ Returned
    /\ \E a, b \in DOMAIN result.scheduled_operations :
          LET x == result.scheduled_operations[a]
              y == result.scheduled_operations[b]
          IN  /\ a # b
              /\ x.machine_instance_id = y.machine_instance_id
              /\ x.job_id # y.job_id
              /\ x.end_time = y.start_time

(***************************************************************************)
(* C4: in a returned Schedule the makespan field equals the maximum        *)
(* end_time over all scheduled operations, for arbitrary acyclic           *)
(* predecessor sets and any order of a job's operation_list.               *)
(***************************************************************************)
MaxEndTime ==
    MaxOf({result.scheduled_operations[k].end_time :
              k \in DOMAIN result.scheduled_operations})

C4_MakespanIsMaxEnd ==
    (Returned /\ result.scheduled_operations # <<>>)
        => result.makespan = MaxEndTime

(***************************************************************************)
(* C5: if an operation of the input requires a machine group whose         *)
(* quantity is 0, solve_jssp returns no Schedule, also when other groups   *)
(* have positive quantity.                                                 *)
(***************************************************************************)
OnZeroCapacityGroup ==
    \E k \in DOMAIN AllOperations(jobs) : \E g \in DOMAIN machine_groups :
        /\ machine_groups[g].id = AllOperations(jobs)[k].machine_group_id
        /\ machine_groups[g].quantity = 0

C5_ZeroCapacityNoSchedule ==
    (pc = "done" /\ OnZeroCapacityGroup) => result = None

C5_Witness ==
    /\ pc = "done"
    /\ OnZeroCapacityGroup
    /\ \E g \in DOMAIN machine_groups : machine_groups[g].quantity > 0
    /\ status = "INFEASIBLE"
    /\ result = None

(***************************************************************************)
(* C6: the combined objective orders assignments by the primary goal: of   *)
(* two assignments that satisfy the constraints, the one with the strictly *)
(* smaller priority-weighted completion sum has the strictly smaller       *)
(* combined objective whatever the makespans (in 0..horizon) are; so the   *)
(* assignment the solver returns has the least weighted sum and, among     *)
(* those, the least makespan.                                              *)
(***************************************************************************)
Combined(m, x) == (m.PRIMARY_WEIGHT * x[1]) + (m.SECONDARY_WEIGHT * x[2])

C6_PrimaryDominates ==
    (pc = "process" /\ status = "OPTIMAL") =>
        LET got == <<values.total_weighted_completion, values.makespan>>
        IN  /\ got \in scores
            /\ \A x \in scores : x[2] \in 0..model.horizon
            /\ \A x, y \in scores :
                  x[1] < y[1] => Combined(model, x) < Combined(model, y)
            /\ \A y \in scores :
                  got[1] < y[1] \/ (got[1] = y[1] /\ got[2] <= y[2])

\* two assignments trade the weighted sum against the makespan
C6_Witness ==
    /\ pc = "process"
    /\ status = "OPTIMAL"
    /\ \E x, y \in scores : x[1] < y[1] /\ x[2] > y[2]

(***************************************************************************)
(* C7: with one single-instance group and two jobs of one operation each,  *)
(* of the same duration d on that group, the job with the strictly higher  *)
(* priority ends at d and the other at 2d (whichever of the two jobs has   *)
(* the higher priority).                                                   *)
(***************************************************************************)
TwoSingleOpJobsOnOneGroup ==
    /\ Len(jobs) = 2
    /\ \A j \in DOMAIN jobs : Len(jobs[j].operation_list) = 1
    /\ jobs[1].operation_list[1].machine_group_id
          = jobs[2].operation_list[1].machine_group_id
    /\ jobs[1].operation_list[1].processing_time
          = jobs[2].operation_list[1].processing_time
    /\ \E g \in DOMAIN machine_groups :
          machine_groups[g].id = jobs[1].operation_list[1].machine_group_id

EndOfJob(j) == Entry(jobs[j].id, jobs[j].operation_list[1].id).end_time

C7_PriorityDominance ==
    (pc = "done" /\ TwoSingleOpJobsOnOneGroup
        /\ GroupQuantity(jobs[1].operation_list[1].machine_group_id) = 1) =>
        \A hi, lo \in DOMAIN jobs :
            jobs[hi].priority > jobs[lo].priority =>
                /\ result # None
                /\ EndOfJob(hi) = jobs[hi].operation_list[1].processing_time
                /\ EndOfJob(lo) = 2 * jobs[hi].operation_list[1].processing_time

C7_Witness ==
    /\ pc = "done"
    /\ TwoSingleOpJobsOnOneGroup
    /\ GroupQuantity(jobs[1].operation_list[1].machine_group_id) = 1
    /\ jobs[2].priority > jobs[1].priority
    /\ result # None
    /\ EndOfJob(2) = 2
    /\ EndOfJob(1) = 4

(***************************************************************************)
(* C8: two jobs of one operation each, of the same duration d on the same  *)
(* group G, and no other job: the returned makespan is 2d when G has       *)
(* quantity 1, and d when G has quantity 2 (the two operations then run    *)
(* on different instances).                                                *)
(***************************************************************************)
C8_PoolingRelievesContention ==
    (pc = "done" /\ TwoSingleOpJobsOnOneGroup) =>
        LET d == jobs[1].operation_list[1].processing_time
            q == GroupQuantity(jobs[1].operation_list[1].machine_group_id)
        IN  /\ q = 1 => (result # None /\ result.makespan = 2 * d)
            /\ q = 2 => /\ result # None
                        /\ result.makespan = d
                        /\ result.scheduled_operations[1].machine_instance_id
                              # result.scheduled_operations[2].machine_instance_id

C8_Witness ==
    /\ pc = "done"
    /\ TwoSingleOpJobsOnOneGroup
    /\ GroupQuantity(jobs[1].operation_list[1].machine_group_id) = 2
    /\ jobs[1].operation_list[1].processing_time = 2
    /\ result # None
    /\ result.makespan = 2
    /\ result.scheduled_operations[1].start_time = 0
    /\ result.scheduled_operations[2].start_time = 0

(***************************************************************************)
(* C9: one job that is a chain of operations (each operation lists the     *)
(* one before it) on distinct single-instance groups, and no other job:    *)
(* the returned makespan is the sum of the processing times and the        *)
(* utilization of each instance is its operation's processing time divided *)
(* by the makespan (2 then 3: makespan 5, utilizations 2/5 and 3/5).       *)
(***************************************************************************)
SingleChainOnDistinctGroups ==
    /\ Len(jobs) = 1
    /\ Len(jobs[1].operation_list) >= 2
    /\ \A k \in DOMAIN jobs[1].operation_list :
          LET op == jobs[1].operation_list[k]
          IN  /\ op.predecessors =
                    (IF k = 1 THEN {} ELSE {jobs[1].operation_list[k - 1].id})
              /\ \E g \in DOMAIN machine_groups :
                    /\ machine_groups[g].id = op.machine_group_id
                    /\ machine_groups[g].quantity = 1
              /\ \A q \in DOMAIN jobs[1].operation_list :
                    q # k => jobs[1].operation_list[q].machine_group_id
                                # op.machine_group_id

BothReturned == pc = "done" /\ prev # None /\ result # None

C10_MakespanMonotone == BothReturned => result.makespan >= prev.makespan

\* C10 as amended: increasing the processing_time of one operation never
\* yields a returned schedule whose priority-weighted completion sum (sum
\* over the jobs of priority * end of the job's last operation) is smaller
\* than that of the schedule returned for the original input.
C10_WeightedSumMonotone ==
    BothReturned => WeightedCompletion(jobs, result) >= prev.weighted

C10_Witness ==
    /\ BothReturned
    /\ result.makespan < prev.makespan
    /\ WeightedCompletion(jobs, result) > prev.weighted

(***************************************************************************)
(* C11: two runs of solve_jssp on the same input return schedules with the *)
(* same priority-weighted completion sum and the same makespan (or both    *)
(* return no schedule), whichever optimal assignment each run picks.       *)
(***************************************************************************)
SecondRunDone == pc = "done" /\ prev # None

C11_ObjectiveDeterministic ==
    SecondRunDone => Summary(jobs, result) = prev.schedule

\* the two runs can differ in the schedule: the input has optimal
\* assignments on different instances
C11_Witness ==
    /\ SecondRunDone
    /\ result # None
    /\ Summary(jobs, result) = prev.schedule
    /\ \E k \in DOMAIN result.scheduled_operations :
          result.scheduled_operations[k].machine_instance_id = "A_1"

(***************************************************************************)
(* C12: in a returned Schedule every machine_utilization value is the sum  *)
(* of the durations of the operations assigned to that instance divided by *)
(* the makespan (0 when the makespan is 0), and lies in [0, 1].            *)
(***************************************************************************)
BusyOn(inst) ==
    SumSeq([k \in DOMAIN result.scheduled_operations |->
               IF result.scheduled_operations[k].machine_instance_id = inst
               THEN result.scheduled_operations[k].end_time
                      - result.scheduled_operations[k].start_time
               ELSE 0])

C12_UtilizationInUnitInterval ==
    Returned =>
        \A inst \in DOMAIN result.machine_utilization :
            LET u == result.machine_utilization[inst]
            IN  /\ u.den > 0
                /\ IF result.makespan > 0
                   THEN u.num * result.makespan = BusyOn(inst) * u.den
                   ELSE u.num = 0
                /\ 0 <= u.num
                /\ u.num <= u.den

(***************************************************************************)
(* C13: in a returned Schedule average_flow_time is the mean, over the     *)
(* input jobs, of (maximum end_time minus minimum start_time of the job's  *)
(* scheduled operations); a job without operations contributes 0.         *)
(***************************************************************************)
RowsOfJob(job_id) ==
    {k \in DOMAIN result.scheduled_operations :
        result.scheduled_operations[k].job_id = job_id}

FlowOfJob(job_id) ==
    IF RowsOfJob(job_id) = {} THEN 0
    ELSE MaxOf({result.scheduled_operations[k].end_time : k \in RowsOfJob(job_id)})
           - MinOf({result.scheduled_operations[k].start_time : k \in RowsOfJob(job_id)})

C13_AverageFlowTimeIsMean ==
    Returned =>
        LET avg == result.average_flow_time
            total == SumSeq([j \in DOMAIN jobs |-> FlowOfJob(jobs[j].id)])
        IN  /\ avg.den > 0
            /\ IF jobs = <<>> THEN avg.num = 0
               ELSE avg.num * Len(jobs) = total * avg.den

C13_Witness ==
    /\ Returned
    /\ Len(jobs) = 2
    /\ Len(jobs[1].operation_list) = 2
    /\ FlowOfJob(jobs[1].id) = 2
    /\ FlowOfJob(jobs[2].id) = 1
    /\ result.average_flow_time = Fraction(3, 2)

(***************************************************************************)
(* C14: in a returned Schedule every scheduled operation lasts exactly the *)
(* processing_time of its input operation, starts at 0 or later and ends   *)
(* at horizon (the sum of all processing times) or earlier.                *)
(***************************************************************************)
C14_DurationAndHorizon ==
    Returned =>
        \A j \in DOMAIN jobs : \A k \in DOMAIN jobs[j].operation_list :
            LET op == jobs[j].operation_list[k]
            IN  \A r \in Scheduled(jobs[j].id, op.id) :
                  LET row == result.scheduled_operations[r]
                  IN  /\ row.end_time - row.start_time = op.processing_time
                      /\ 0 <= row.start_time
                      /\ row.end_time <= horizon(jobs)

\* three operations, one starting at 0, one ending at the horizon
C14_Witness ==
    /\ Returned
    /\ Len(result.scheduled_operations) = 3
    /\ \E a, b \in DOMAIN result.scheduled_operations :
          /\ result.scheduled_operations[a].start_time = 0
          /\ result.scheduled_operations[b].end_time = horizon(jobs)
          /\ result.scheduled_operations[b].end_time
                - result.scheduled_operations[b].start_time > 1

(***************************************************************************)
(* C15: if an operation names a machine_group_id that is not among the     *)
(* supplied machine groups, solve_jssp returns no Schedule and the solver  *)
(* is never invoked.                                                       *)
(***************************************************************************)
UnknownGroupInInput ==
    \E k \in DOMAIN AllOperations(jobs) :
        \A g \in DOMAIN machine_groups :
            machine_groups[g].id # AllOperations(jobs)[k].machine_group_id

C15_UnknownGroupNeverSolved ==
    UnknownGroupInInput =>
        /\ pc \notin {"solve", "process"}
        /\ status = None
        /\ pc = "done" => result = None

\* the first operation is on a known group with instances, a later one is not
C15_Witness ==
    /\ pc = "done"
    /\ UnknownGroupInInput
    /\ Len(AllOperations(jobs)) >= 2
    /\ GroupQuantity(AllOperations(jobs)[1].machine_group_id) > 0
    /\ status = None
    /\ result = None

(***************************************************************************)
(* C16: if an operation of the input has a non-positive processing_time,   *)
(* the input is rejected before the model is built: the solver is not      *)
(* invoked and no Schedule is returned.                                    *)
(***************************************************************************)
NonPositiveProcessingTime ==
    \E k \in DOMAIN AllOperations(jobs) : AllOperations(jobs)[k].processing_time <= 0

C16_NonPositiveTimeRejected ==
    NonPositiveProcessingTime =>
        /\ pc \notin {"solve", "process"}
        /\ model = None
        /\ status = None
        /\ pc = "done" => result = None

(***************************************************************************)
(* C17: the failure reported for a well-formed but infeasible input (an    *)
(* operation on a group without capacity) differs from the failure         *)
(* reported for a malformed input (an operation on an unknown group), in   *)
(* the return value of solve_jssp and in the reply of                      *)
(* _tool_solve_schedule.                                                   *)
(***************************************************************************)
KnownGroups(js, mgs) ==
    \A k \in DOMAIN AllOperations(js) :
        \E g \in DOMAIN mgs : mgs[g].id = AllOperations(js)[k].machine_group_id

\* the first call failed on a well-formed input, the second on a malformed one
InfeasibleThenMalformed ==
    /\ pc = "replied"
    /\ caller = "_tool_solve_schedule"
    /\ prev # None
    /\ KnownGroups(jobs, prev.machine_groups)
    /\ prev.solver_invoked
    /\ prev.status = "INFEASIBLE"
    /\ ~KnownGroups(jobs, machine_groups)
    /\ all_machine_instances(machine_groups) # <<>>

C17_FailuresDistinguishable ==
    InfeasibleThenMalformed =>
        /\ result # prev.result
        /\ reply # prev.reply

(***************************************************************************)
(* C18: when the list of jobs or the list of machine groups is empty, the  *)
(* solve pipeline (solve_jssp alone, or called by _tool_solve_schedule or  *)
(* _tool_simulate_solve) returns an explicit failure and never invokes the *)
(* solver.                                                                 *)
(***************************************************************************)
EmptyInput == jobs = <<>> \/ machine_groups = <<>>

C18_EmptyInputNeverSolved ==
    EmptyInput =>
        /\ pc \notin {"solve", "process"}
        /\ model = None
        /\ pc = "done" => result = None
        /\ pc = "replied" => reply = NothingToSolve

(***************************************************************************)
(* C19: when the solver's status is neither OPTIMAL nor FEASIBLE, nothing  *)
(* is decoded and solve_jssp returns no Schedule; what solve_jssp returns  *)
(* is either None or a complete Schedule (one row per input operation, a   *)
(* utilization for every instance that is used), never a partial one.      *)
(***************************************************************************)
SolverRan == pc \in {"process", "done", "replied"} /\ model # None

Complete(sched) ==
    /\ Len(sched.scheduled_operations) = Len(AllOperations(jobs))
    /\ \A j \in DOMAIN jobs : \A k \in DOMAIN jobs[j].operation_list :
          Cardinality({r \in DOMAIN sched.scheduled_operations :
              /\ sched.scheduled_operations[r].job_id = jobs[j].id
              /\ sched.scheduled_operations[r].operation_id =
                     jobs[j].operation_list[k].id}) = 1
    /\ DOMAIN sched.machine_utilization =
          {sched.scheduled_operations[r].machine_instance_id :
              r \in DOMAIN sched.scheduled_operations}

C19_FailureHasNoSchedule ==
    /\ (SolverRan /\ status \notin {"OPTIMAL", "FEASIBLE"}) =>
          (values = None /\ result = None)
    /\ pc = "done" => (result = None \/ Complete(result))

C19_Witness ==
    /\ pc = "done"
    /\ SolverRan
    /\ status = "INFEASIBLE"
    /\ jobs # <<>>
    /\ result = None

(***************************************************************************)
(* C20: horizon, the sum of all processing times, is a safe upper bound of *)
(* the time variables: for every valid input (positive durations, every    *)
(* operation on a known group with quantity >= 1, acyclic predecessors)    *)
(* some assignment with every start and end in 0..horizon satisfies the    *)
(* exactly-one, precedence and no-overlap constraints.                     *)
(***************************************************************************)
ValidInput ==
    /\ \A k \in DOMAIN AllOperations(jobs) :
          /\ AllOperations(jobs)[k].processing_time > 0
          /\ GroupQuantity(AllOperations(jobs)[k].machine_group_id) >= 1
    /\ \A j \in DOMAIN jobs :
          \E rank \in [Range(jobs[j].operation_list) -> 1..Len(jobs[j].operation_list)] :
              \A op, pred \in Range(jobs[j].operation_list) :
                  pred.id \in op.predecessors => rank[pred] < rank[op]

WithinHorizon(a) ==
    \A k \in DOMAIN a :
        /\ 0 <= a[k].start
        /\ a[k].end <= horizon(jobs)

C20_HorizonIsSafeBound ==
    (pc = "solve" /\ ValidInput) =>
        \E a \in Assignments(model) : WithinHorizon(a)

\* two operations or more that all need the one instance of one group
C20_Witness ==
    /\ pc = "solve"
    /\ ValidInput
    /\ Len(AllOperations(jobs)) >= 2
    /\ \A k \in DOMAIN AllOperations(jobs) :
          /\ AllOperations(jobs)[k].machine_group_id = AllOperations(jobs)[1].machine_group_id
          /\ GroupQuantity(AllOperations(jobs)[k].machine_group_id) = 1
    /\ \E a \in Assignments(model) :
          /\ WithinHorizon(a)
          /\ \E k \in DOMAIN a : a[k].end = horizon(jobs)

(***************************************************************************)
(* C21: solve_jssp does not modify the job and machine-group records it is *)
(* given, and each of two invocations that run at the same time returns a  *)
(* result that it can return when it runs alone.                           *)
(***************************************************************************)
\* what one invocation on its own can return for an input
AloneResults(js, mgs) ==
    IF all_machine_instances(mgs) = <<>> \/ ~KnownGroups(js, mgs)
    THEN {None}
    ELSE LET m == CpModel(js, mgs)
             feasible == Feasible(m)
         IN  IF feasible = {} THEN {None}
             ELSE {Decode(js, m, v) : v \in OptimalAmong(m, feasible)}

C21_InvocationsIndependent ==
    other # None =>
        /\ jobs = other.given.first.jobs
        /\ machine_groups = other.given.first.machine_groups
        /\ other.frame.jobs = other.given.second.jobs
        /\ other.frame.machine_groups = other.given.second.machine_groups
        /\ (pc = "done" /\ other.frame.pc = "done") =>
              /\ result \in AloneResults(other.given.first.jobs,
                                         other.given.first.machine_groups)
              /\ other.frame.result \in AloneResults(other.given.second.jobs,
                                                     other.given.second.machine_groups)

\* both invocations have returned, each the schedule of its own jobs
C21_Witness ==
    /\ other # None
    /\ pc = "done"
    /\ other.frame.pc = "done"
    /\ result # None
    /\ other.frame.result # None
    /\ Len(result.scheduled_operations) = 2
    /\ Len(other.frame.result.scheduled_operations) = 1

(***************************************************************************)
(* C22: after any sequence of add_job, adjust_job and swap_operations      *)
(* calls, the operations of every job they created or modified form one    *)
(* chain: the first operation (by id) has no predecessors and the k-th     *)
(* lists exactly the id of the (k-1)-th operation of the same job.         *)
(***************************************************************************)
SingleChain(job) ==
    LET ops == SortedById(job.id, job.operation_list)
    IN  \A k \in DOMAIN ops :
            ops[k].predecessors = IF k = 1 THEN {} ELSE {ops[k - 1].id}

C22_EditedJobsAreChains ==
    \A j \in DOMAIN jobs : jobs[j].id \in edited => SingleChain(jobs[j])

\* an imported job has been re-linked by a swap, another was added with two
\* operations
C22_Witness ==
    /\ Len(jobs) = 2
    /\ edited = {jobs[1].id, jobs[2].id}
    /\ Len(jobs[1].operation_list) = 2
    /\ Len(jobs[2].operation_list) = 2
    /\ jobs[1].operation_list[1].id = ToolOpId(jobs[1].id, 1)
    /\ reply = [text |-> "Successfully swapped", job_id |-> jobs[1].id]

(***************************************************************************)
(* C23: _tool_simulate_solve never changes persisted state: when it has    *)
(* returned, with the figures of a schedule or with an error, the saved    *)
(* Schedule rows of every scenario (with their ScheduledOperation rows),   *)
(* the jobs and the machine groups are exactly what they were before the   *)
(* call.                                                                   *)
(***************************************************************************)
SimulateReturned(c) ==
    calls[c].tool = "_tool_simulate_solve" /\ calls[c].pc = "returned"

C23_SimulateSolveWritesNothing ==
    \A c \in DOMAIN calls : SimulateReturned(c) => calls[c].after = calls[c].before

\* one simulation returned the figures of a schedule, another an error,
\* while both scenarios have a saved schedule
C23_Witness ==
    /\ calls # <<>>
    /\ \E c \in DOMAIN calls :
          /\ SimulateReturned(c)
          /\ "makespan" \in DOMAIN calls[c].reply
          /\ calls[c].result # None
          /\ calls[c].result.scheduled_operations # <<>>
    /\ \E c \in DOMAIN calls :
          /\ SimulateReturned(c)
          /\ "error" \in DOMAIN calls[c].reply
    /\ \A s \in ScenarioIds : RowsOf(saved, s) # {}

(***************************************************************************)
(* C24: whenever no _tool_solve_schedule call is in progress, a scenario   *)
(* on which such calls succeeded has exactly one saved Schedule, the one   *)
(* the most recently completed of them produced, and                       *)
(* get_latest_schedule_for_scenario returns it; the schedules of a         *)
(* scenario no call was made on are untouched.                             *)
(***************************************************************************)
SolveSucceeded(c) ==
    /\ calls[c].tool = "_tool_solve_schedule"
    /\ calls[c].pc = "returned"
    /\ "new_schedule_id" \in DOMAIN calls[c].reply

NoSolveInProgress == \A c \in DOMAIN calls : calls[c].pc \in {"idle", "returned"}

SuccessesOn(scenario_id) ==
    {k \in DOMAIN completed :
        SolveSucceeded(completed[k]) /\ calls[completed[k]].scenario_id = scenario_id}

\* every _tool_solve_schedule call made on the scenario succeeded
OnlySuccessesOn(scenario_id) ==
    \A c \in DOMAIN calls :
        (calls[c].tool = "_tool_solve_schedule" /\ calls[c].scenario_id = scenario_id)
            => SolveSucceeded(c)

C24_OneScheduleTheLatest ==
    (calls # <<>> /\ NoSolveInProgress) =>
        \A s \in ScenarioIds :
            IF SuccessesOn(s) # {}
            THEN OnlySuccessesOn(s) => LET last == calls[completed[MaxOf(SuccessesOn(s))]]
                     row == ScheduleRow(last.reply.new_schedule_id, s,
                                        last.reply.new_schedule_id, last.result)
                 IN  /\ RowsOf(saved, s) = {row}
                     /\ get_latest_schedule_for_scenario(s) = row
            ELSE (\A c \in DOMAIN calls : calls[c].scenario_id # s) =>
                    \A c \in DOMAIN calls :
                        calls[c].pc # "idle" =>
                            RowsOf(saved, s) = RowsOf(calls[c].before.saved, s)

(***************************************************************************)
(* C29: if _tool_solve_schedule returns an error (the solver failed, or a  *)
(* step raised, the insertion of the new schedule included), the Schedule  *)
(* and ScheduledOperation rows saved for the scenario before the call are  *)
(* still present and unchanged; stated for a call that ran while no other  *)
(* call did.                                                               *)
(***************************************************************************)
SolveFailedAlone(c) ==
    /\ calls[c].tool = "_tool_solve_schedule"
    /\ calls[c].pc = "returned"
    /\ "error" \in DOMAIN calls[c].reply
    /\ \A d \in DOMAIN calls : d # c => calls[d].pc = "idle"

C29_ErrorKeepsSavedRows ==
    \A c \in DOMAIN calls :
        SolveFailedAlone(c) =>
            RowsOf(saved, calls[c].scenario_id)
                = RowsOf(calls[c].before.saved, calls[c].scenario_id)
(***************************************************************************)
(* C28: for every input with at least one job, positive priorities and     *)
(* processing times, every operation on a supplied machine group of        *)
(* quantity 1 or more, and each job's operations a chain, solve_jssp       *)
(* returns a Schedule and never None: the domains declared for the         *)
(* weighted terms, total_weighted_completion and the combined objective    *)
(* admit the values of a feasible schedule, for every horizon from 1 up.   *)
(***************************************************************************)
ChainPrecedence ==
    \A j \in DOMAIN jobs :
        \A k \in DOMAIN jobs[j].operation_list :
            jobs[j].operation_list[k].predecessors =
                IF k = 1 THEN {} ELSE {jobs[j].operation_list[k - 1].id}

WellFormedInput ==
    /\ jobs # <<>>
    /\ \A j \in DOMAIN jobs : jobs[j].priority > 0
    /\ ValidInput
    /\ ChainPrecedence
    /\ horizon(jobs) >= 1

C28_WellFormedInputIsSolved ==
    (pc = "done" /\ WellFormedInput) => result # None
(***************************************************************************)
(* C25: after a logout with a session token, get_user_context rejects the  *)
(* token with 401 from then on, and so does every request that carries it  *)
(* (no login issues the token again); a logout with a token that has no    *)
(* session succeeds and leaves the sessions as they were.                  *)
(***************************************************************************)
C25_LoggedOutTokenStaysRejected ==
    /\ \A t \in revoked : get_user_context(t) = Unauthorized
    /\ response # None =>
          /\ (response.op \notin {"login", "logout"} /\ response.token \in revoked)
                => response.status_code = 401
          /\ (response.op = "logout" /\ response.token \notin DOMAIN response.before)
                => /\ response.status_code = 200
                   /\ user_sessions = response.before

\* a token was logged out, a login after that opened another session, and a
\* second logout with the old token found no session
C25_Witness ==
    /\ response # None
    /\ response.op = "logout"
    /\ response.token \in revoked
    /\ response.token \notin DOMAIN response.before
    /\ response.detail = "No active session found, logged out."
    /\ \E t \in DOMAIN user_sessions : t > response.token

(***************************************************************************)
(* C26: _tool_select_scenario and select_user_scenario change the active   *)
(* scenario of the session only if the scenario exists and belongs to the  *)
(* user of the session; otherwise they answer with an error and the active *)
(* scenario stays; the active scenario of another session never changes.   *)
(***************************************************************************)
Selects == {"_tool_select_scenario", "select_user_scenario"}

OwnedBy(scenario_id, user_id) ==
    \E row \in scenarios : row.id = scenario_id /\ row.user_id = user_id

C26_SelectOnlyOwnScenario ==
    (response # None /\ response.op \in Selects /\ response.token \in DOMAIN response.before)
        => IF OwnedBy(response.arg, response.before[response.token].current_user_id)
           THEN /\ response.status_code = 200
                /\ user_sessions =
                       [response.before EXCEPT ![response.token].current_scenario_id =
                                                   response.arg]
           ELSE /\ response.status_code # 200
                /\ user_sessions = response.before

\* with two sessions open, one session selected a scenario other than its
\* user's "Live Data"
C26_Witness ==
    /\ response # None
    /\ response.op \in Selects
    /\ response.status_code = 200
    /\ Cardinality(DOMAIN user_sessions) >= 2
    /\ response.token \in DOMAIN user_sessions
    /\ user_sessions[response.token].current_scenario_id > Cardinality(UserIds)
    /\ response.before[response.token].current_scenario_id <= Cardinality(UserIds)

(***************************************************************************)
(* C30: under any interleaving of login, select_scenario, create_scenario  *)
(* and delete_scenario calls of the sessions (two sessions of one user     *)
(* included), the current_scenario_id of every active session names a      *)
(* scenario that exists and belongs to the user of the session.            *)
(***************************************************************************)
C30_ActiveScenarioExists ==
    \A t \in DOMAIN user_sessions :
        OwnedBy(user_sessions[t].current_scenario_id, user_sessions[t].current_user_id)
(***************************************************************************)
(* C27: every /interpret request ends, after at most max_turns = 10 LLM    *)
(* calls; a turn handles exactly one tool call and goes on, or returns the *)
(* final text, or raises an HTTP error; when all 10 turns were tool calls  *)
(* the request ends with HTTP 500 "Orchestration exceeded maximum turns".  *)
(***************************************************************************)
Exceeded == HttpError("Orchestration exceeded maximum turns")

C27_TurnsBounded ==
    interpret # None =>
        /\ interpret.llm_calls <= max_turns
        /\ interpret.function_turns = interpret.turn
        /\ interpret.tools_run <= interpret.function_turns
        /\ interpret.llm_calls \in {interpret.turn, interpret.turn + 1}
        /\ interpret.pc = "loop" => interpret.llm_calls = interpret.turn
        /\ interpret.pc = "done" =>
              /\ interpret.outcome.status_code \in {200, 500}
              /\ (interpret.function_turns = max_turns) <=> (interpret.outcome = Exceeded)

C27_Ended == interpret # None /\ interpret.pc = "done"

C27_InterpretEnds == []C27_TurnsBounded /\ <>C27_Ended

\* ten turns of tool calls, one of them for a name that is not a tool
C27_Witness ==
    /\ interpret # None
    /\ interpret.pc = "done"
    /\ interpret.outcome = Exceeded
    /\ interpret.llm_calls = max_turns
    /\ interpret.tools_run = max_turns - 1

====
